---------------------------- MODULE Spec2Model ----------------------------
(***************************************************************************)
(* Model of oleoneto/go-structs: the attribute walker (structs.GetAttributes)*)
(* and the path namer (StructAttribute.FullName).                          *)
(*                                                                         *)
(* Go strings are sequences of one-character strings, so that Split, Join, *)
(* TrimPrefix and Sprint are computed character by character.  Go slices   *)
(* of StructAttribute are slice headers [arr, len] into a heap of backing  *)
(* arrays, so that append is computed as Go computes it (in place when the *)
(* capacity allows, a fresh array otherwise).                              *)
(***************************************************************************)
EXTENDS Integers, Sequences, FiniteSets, TLC

VARIABLES
    entity,         \* the reflect.Value handed to GetAttributes
    filterTags,     \* GetAttributes' filterTags argument
    ignoredFields,  \* GetAttributes' ignoredFields argument
    attributes,     \* the slice GetAttributes returned
    heap,           \* backing arrays of the Parents slices
    pc,             \* "ready" before the call, "done" after it
    skipRules,      \* options.SkipRules of the validators (options.Ignore is ignoredFields)
    validations,    \* Validate's map from full name to error codes
    pos,            \* Validate's position in the attributes
    call,           \* a call of one of the validators' rule functions: its arguments
    returned,       \* what that call returned
    decoderErrors   \* the map Decode returned to ValidatePayload

vars == <<entity, filterTags, ignoredFields, attributes, heap, pc,
          skipRules, validations, pos, call, returned, decoderErrors>>

\* ------------------------------------------------------------------ bounds

\* longest list held by a field of a generated record
MaxLen == 2

\* ------------------------------------------------------------- Go strings

RECURSIVE Join(_, _)
\* strings.Join(elems, sep)
Join(elems, sep) ==
    IF Len(elems) = 0 THEN <<>>
    ELSE IF Len(elems) = 1 THEN elems[1]
    ELSE elems[1] \o sep \o Join(Tail(elems), sep)

\* position of the first occurrence of the character c in s, 0 when absent
IndexByte(s, c) ==
    IF \E i \in 1..Len(s) : s[i] = c
    THEN CHOOSE i \in 1..Len(s) : s[i] = c /\ \A j \in 1..(i - 1) : s[j] # c
    ELSE 0

RECURSIVE Split(_, _)
\* strings.Split(s, sep) for a one-character separator: Split("", ",") is [""]
Split(s, c) ==
    LET i == IndexByte(s, c)
    IN IF i = 0 THEN <<s>>
       ELSE <<SubSeq(s, 1, i - 1)>> \o Split(SubSeq(s, i + 1, Len(s)), c)

\* strings.SplitN(s, sep, 2)
SplitN2(s, c) ==
    LET i == IndexByte(s, c)
    IN IF i = 0 THEN <<s>>
       ELSE <<SubSeq(s, 1, i - 1), SubSeq(s, i + 1, Len(s))>>

HasPrefix(s, p) == Len(s) >= Len(p) /\ SubSeq(s, 1, Len(p)) = p

HasSuffix(s, p) == Len(s) >= Len(p) /\ SubSeq(s, Len(s) - Len(p) + 1, Len(s)) = p

\* strings.TrimPrefix
TrimPrefix(s, p) == IF HasPrefix(s, p) THEN SubSeq(s, Len(p) + 1, Len(s)) ELSE s

\* strings.TrimSuffix
TrimSuffix(s, p) == IF HasSuffix(s, p) THEN SubSeq(s, 1, Len(s) - Len(p)) ELSE s

Digit(d) == <<"0", "1", "2", "3", "4", "5", "6", "7", "8", "9">>[d + 1]

RECURSIVE Itoa(_)
\* the decimal text fmt.Sprint gives an int
Itoa(n) ==
    IF n < 0 THEN <<"-">> \o Itoa(0 - n)
    ELSE IF n < 10 THEN <<Digit(n)>>
    ELSE Itoa(n \div 10) \o <<Digit(n % 10)>>

\* a Contains that finds nothing
ContainsNone(collection, element) == FALSE

\* Contains(collection, element)
Contains(collection, element) ==
    \E i \in 1..Len(collection) : collection[i] = element


\* ------------------------------------------------------------- struct tags

\* number of leading characters of s that satisfy neither of the stop tests
RECURSIVE SpanName(_)
\* reflect.StructTag.Lookup: the scan to the colon stops at a space, a colon or a quote
SpanName(s) ==
    IF Len(s) = 0 \/ s[1] \in {" ", ":", "\""} THEN 0
    ELSE 1 + SpanName(Tail(s))

RECURSIVE SkipSpaces(_)
SkipSpaces(s) ==
    IF Len(s) > 0 /\ s[1] = " " THEN SkipSpaces(Tail(s)) ELSE s

NotFound == [ok |-> FALSE, value |-> <<>>]

RECURSIVE Lookup(_, _)
\* reflect.StructTag.Lookup(key) on the conventional  key:"value" key:"value"  text
Lookup(tag, key) ==
    LET t == SkipSpaces(tag)
        i == SpanName(t)
    IN IF Len(t) = 0 THEN NotFound
       ELSE IF i = 0 \/ i + 1 >= Len(t) \/ t[i + 1] # ":" \/ t[i + 2] # "\"" THEN NotFound
       ELSE LET name == SubSeq(t, 1, i)
                rest == SubSeq(t, i + 3, Len(t))     \* what follows the opening quote
                j    == IndexByte(rest, "\"")
            IN IF j = 0 THEN NotFound
               ELSE IF name = key THEN [ok |-> TRUE, value |-> SubSeq(rest, 1, j - 1)]
               ELSE Lookup(SubSeq(rest, j + 1, Len(rest)), key)

\* reflect.StructTag.Get(key)
TagGet(tag, key) == Lookup(tag, key).value

S_json == <<"j", "s", "o", "n">>
S_db == <<"d", "b">>
S_max == <<"m", "a", "x">>
S_min == <<"m", "i", "n">>

VALIDATION_TAG_KEYWORD == <<"v", "a", "l", "i", "d", "a", "t", "e">>

NON_INHERITABLE_TAG_ATTRIBUTES == <<S_max, S_min>>

\* GetTagValue(sf, tagName): the first value of the tag, the field's name when empty
GetTagValue(sf, tagName) ==
    LET tag == Split(TagGet(sf.Tag, tagName), ",")
    IN IF Len(tag) # 0 /\ tag[1] # <<>> THEN tag[1] ELSE sf.Name

GetJSONTagValue(sf) == GetTagValue(sf, S_json)

\* GetTagValues(sf, tagName)
GetTagValues(sf, tagName) ==
    LET r == Lookup(sf.Tag, tagName)
    IN IF r.ok THEN Split(r.value, ",") ELSE <<>>

\* GetTag(sf, tagName): key -> value of each comma-separated entry, a later
\* entry of the same key overwriting an earlier one
GetTag(sf, tagName) ==
    LET r    == Lookup(sf.Tag, tagName)
        rule == IF r.ok THEN Split(r.value, ",") ELSE <<>>
        t(k) == SplitN2(rule[k], "=")
        last(key) == CHOOSE k \in 1..Len(rule) :
                        /\ t(k)[1] = key
                        /\ \A m \in (k + 1)..Len(rule) : t(m)[1] # key
    IN [key \in {t(k)[1] : k \in 1..Len(rule)} |->
            IF Len(t(last(key))) = 1 THEN <<>> ELSE t(last(key))[2]]

\* TagConstainsValues(field, tag, values)
TagConstainsValues(field, tag, values) ==
    LET r == Lookup(field.Tag, tag)
    IN r.ok /\ \E i \in 1..Len(values) : Contains(Split(r.value, ","), values[i])

\* --------------------------------------------------- RemoveValuesFromTag

\* One item of the pattern  ,?KEY=?VALUE?,?  : a character, whether it is
\* optional, and whether the option is lazy (=?? when VALUE is empty).
Item(c, opt, lazy) == [ch |-> c, opt |-> opt, lazy |-> lazy]

Literal(s) == [k \in 1..Len(s) |-> Item(s[k], FALSE, FALSE)]

\* regexp.MustCompile(fmt.Sprintf(`,?%v=?%v?,?`, i, v))
Pattern(i, v) ==
    <<Item(",", TRUE, FALSE)>> \o Literal(i)
    \o (IF Len(v) = 0
        THEN <<Item("=", TRUE, TRUE)>>
        ELSE <<Item("=", TRUE, FALSE)>> \o Literal(SubSeq(v, 1, Len(v) - 1))
             \o <<Item(v[Len(v)], TRUE, FALSE)>>)
    \o <<Item(",", TRUE, FALSE)>>

RECURSIVE MatchAt(_, _, _, _)
\* leftmost-first match of pat[k..] at s[p..]: the position after the match, 0 for none
MatchAt(pat, k, s, p) ==
    IF k > Len(pat) THEN p
    ELSE LET it   == pat[k]
             take == IF p <= Len(s) /\ s[p] = it.ch THEN MatchAt(pat, k + 1, s, p + 1) ELSE 0
         IN IF ~it.opt THEN take
            ELSE LET skip == MatchAt(pat, k + 1, s, p)
                 IN IF it.lazy
                    THEN (IF skip # 0 THEN skip ELSE take)
                    ELSE (IF take # 0 THEN take ELSE skip)

RECURSIVE ReplaceAll(_, _, _)
\* pattern.ReplaceAllString(s, ""), from position p on: the leftmost match is
\* cut out and the search goes on after it
ReplaceAll(pat, s, p) ==
    LET starts == {q \in p..Len(s) : MatchAt(pat, 1, s, q) # 0}
    IN IF starts = {} THEN SubSeq(s, p, Len(s))
       ELSE LET q == CHOOSE m \in starts : \A o \in starts : m <= o
            IN SubSeq(s, p, q - 1) \o ReplaceAll(pat, s, MatchAt(pat, 1, s, q))

RECURSIVE RemoveLoop(_, _, _, _)
RemoveLoop(result, t, removeList, n) ==
    IF n > Len(removeList) THEN result
    ELSE LET i == removeList[n]
         IN IF i \in DOMAIN t
            THEN RemoveLoop(ReplaceAll(Pattern(i, t[i]), result, 1), t, removeList, n + 1)
            ELSE RemoveLoop(result, t, removeList, n + 1)

\* a RemoveValuesFromTag that removes nothing
KeepWholeTag(tag, removeList, field) == field.Tag

\* RemoveValuesFromTag(tag, removeList, field)
RemoveValuesFromTag(tag, removeList, field) ==
    RemoveLoop(field.Tag, GetTag(field, tag), removeList, 1)

\* ------------------------------------------------------- reflected values

\* A reflect.Value: its Kind, the named type it has (when the code asks), and
\* what it holds: the pointee of a pointer (elems is empty for a nil pointer),
\* the elements of a slice or array, the fields of a struct (each a
\* reflect.StructField sf and the field's value v), the text of a scalar.
Val(kind, typ, elems, fields, val) ==
    [kind |-> kind, typ |-> typ, elems |-> elems, fields |-> fields, val |-> val]

\* reflect.StructField, as far as the package reads it
StructField(name, tag, anonymous) == [Name |-> name, Tag |-> tag, Anonymous |-> anonymous]

\* a PointerElement that takes an unset pointer for a value
PointerElementUnchecked(rv) == [el |-> rv, err |-> FALSE]

RECURSIVE PointerElement(_)
\* PointerElement(rv): follows pointers; a nil pointer is returned with an error
PointerElement(rv) ==
    IF rv.kind = "ptr"
    THEN IF Len(rv.elems) = 0
         THEN [el |-> rv, err |-> TRUE]
         ELSE PointerElement(rv.elems[1])
    ELSE [el |-> rv, err |-> FALSE]

\* ---------------------------------------------------------- Go slices

\* a slice header of []StructAttribute: backing array (0 for none) and length
Slice(arr, len) == [arr |-> arr, len |-> len]

Cap(h, s) == IF s.arr = 0 THEN 0 ELSE h[s.arr].cap

\* the elements a slice header shows when read through the heap h
Elems(h, s) == IF s.len = 0 THEN <<>> ELSE SubSeq(h[s.arr].data, 1, s.len)

\* the capacity append gives a full slice that grows by one element
GrowCap(oldCap, newLen) == IF newLen > 2 * oldCap THEN newLen ELSE 2 * oldCap

\* append(s, x): written into the backing array when the capacity allows,
\* copied into a fresh array otherwise
AppendOne(h, s, x) ==
    IF s.len < Cap(h, s)
    THEN LET old == h[s.arr].data
             new == SubSeq(old, 1, s.len) \o <<x>> \o SubSeq(old, s.len + 2, Len(old))
         IN [heap  |-> [h EXCEPT ![s.arr].data = new],
             slice |-> Slice(s.arr, s.len + 1)]
    ELSE [heap  |-> Append(h, [cap  |-> GrowCap(Cap(h, s), s.len + 1),
                               data |-> Append(Elems(h, s), x)]),
          slice |-> Slice(Len(h) + 1, s.len + 1)]

\* ------------------------------------------------------ StructAttribute

StructAttribute(value, field, parents, children, listPosition, isPrimitive) ==
    [Value |-> value, Field |-> field, Parents |-> parents, Children |-> children,
     ListPosition |-> listPosition, isPrimitive |-> isPrimitive]

\* fmt.Sprint("[", sa.ListPosition, "]")
Sprint(listPosition) == <<"[">> \o Itoa(listPosition) \o <<"]">>

\* Scoped with the list index written only from the second element on
ScopedPositive(sa, parentName) ==
    LET scope == IF sa.ListPosition > 0
                 THEN Join(<<parentName, Sprint(sa.ListPosition)>>, <<>>)
                 ELSE parentName
        fullName == Join(<<scope, GetJSONTagValue(sa.Field)>>, <<".">>)
    IN IF sa.isPrimitive THEN scope
       ELSE TrimSuffix(TrimPrefix(fullName, <<".">>), <<".">>)

\* what FullName makes of the parent's full name (scope) and the attribute
Scoped(sa, parentName) ==
    LET scope == IF sa.ListPosition >= 0
                 THEN Join(<<parentName, Sprint(sa.ListPosition)>>, <<>>)
                 ELSE parentName
        fullName == Join(<<scope, GetJSONTagValue(sa.Field)>>, <<".">>)
    IN IF sa.isPrimitive THEN scope
       ELSE TrimSuffix(TrimPrefix(fullName, <<".">>), <<".">>)

RECURSIVE FullName(_, _)
\* sa.FullName(), the Parents read through the heap h
FullName(sa, h) ==
    IF sa.Parents.len = 0 THEN GetJSONTagValue(sa.Field)
    ELSE LET scope == FullName(h[sa.Parents.arr].data[sa.Parents.len], h)
         IN IF Len(scope) >= 0 THEN Scoped(sa, scope) ELSE scope

\* a count of the children alone
SkipsChildrenOnly(sa) == Len(sa.Children)

RECURSIVE SkipsPastLastChild(_)
\* sa.SkipsPastLastChild()
SkipsPastLastChild(sa) ==
    LET RECURSIVE Sum(_)
        Sum(k) == IF k > Len(sa.Children) THEN 0
                  ELSE 1 + SkipsPastLastChild(sa.Children[k]) + Sum(k + 1)
    IN IF Len(sa.Children) = 0 THEN 0
       ELSE 1 + Len(sa.Children) + Sum(1)

\* ------------------------------------------------------------ the walker

RECURSIVE IncludeLoop(_, _, _, _)
\* for _, tag := range filterTags { _, shouldBeIncluded = sa.Field.Tag.Lookup(tag) }
IncludeLoop(field, tags, k, shouldBeIncluded) ==
    IF k > Len(tags) THEN shouldBeIncluded
    ELSE IncludeLoop(field, tags, k + 1, Lookup(field.Tag, tags[k]).ok)

\* ShouldBeIncluded with shouldBeIncluded starting out false
ShouldBeIncludedIfListed(field, tags) == IncludeLoop(field, tags, 1, FALSE)

\* shouldBeIncluded := len(filterTags) == 0, then the loop over filterTags
ShouldBeIncluded(field, tags) == IncludeLoop(field, tags, 1, Len(tags) = 0)

\* a walker that takes an embedded field for an ordinary one
NeverAnonymous(sa) == FALSE

\* if sa.Field.Anonymous: the field is an embedded one
IsAnonymous(sa) == sa.Field.Anonymous

\* Excluded, with the fields whose pointer is unset passed over as well
ExcludedOrUnset(sa, rsf, tags, ignored) ==
    \/ ~ShouldBeIncluded(sa.Field, tags) \/ Contains(ignored, rsf.Name)
    \/ sa.Value.kind = "ptr"

\* if !shouldBeIncluded || Contains(ignoredFields, rsf.Name): the field is passed over
Excluded(sa, rsf, tags, ignored) ==
    ~ShouldBeIncluded(sa.Field, tags) \/ Contains(ignored, rsf.Name)

\* Save with the field put in front of what was collected
SaveFirst(attrs, sa) == <<sa>> \o attrs

\* attributes = append(attributes, sa)
Save(attrs, sa) == Append(attrs, sa)

\* a test that takes no value for a uuid.UUID
NeverGoogleUUID(value) == FALSE

\* value.Type() == reflect.TypeOf(uuid.New())
IsGoogleUUID(value) == value.typ = "uuid.UUID"

\* what a call or a loop iteration leaves: the attributes collected so far and the heap
Walked(attrs, h) == [attributes |-> attrs, heap |-> h]

\* TLC evaluates an operator's arguments when they are first read: a loop
\* reads what the last iteration left before it goes on, so that one
\* iteration is not evaluated inside the next
Evaluated(w) == Len(w.attributes) >= 0

RECURSIVE getAttributes(_, _, _, _, _, _)
RECURSIVE FieldLoop(_, _, _, _, _, _, _)
RECURSIVE ElementLoop(_, _, _, _, _, _, _, _)

\* one iteration of the loop over the elements of a slice or array field:
\* element l (numbered from 1 here; the ListPosition is l - 1), w what the
\* iterations before it left
Element(value, l, sa, newParents, isListOfPrimitives, tags, ignored, w) ==
    LET el    == value.elems[l]
        attrs == w.attributes
    IN IF isListOfPrimitives
       THEN LET bare  == StructAttribute(el, StructField(<<>>, <<>>, FALSE),
                                         newParents, <<>>, l - 1, TRUE)
                childTag == RemoveValuesFromTag(VALIDATION_TAG_KEYWORD,
                                                NON_INHERITABLE_TAG_ATTRIBUTES, sa.Field)
                child == [bare EXCEPT
                             !.Field = StructField(FullName(bare, w.heap), childTag, FALSE)]
                marked == [attrs EXCEPT
                             ![Len(attrs)].Children = Append(sa.Children, child)]
            IN Walked(Append(marked, child), w.heap)
       ELSE LET nested == getAttributes(el, newParents, tags, ignored, l - 1, w.heap)
                marked == IF Len(attrs) # 0
                          THEN [attrs EXCEPT ![Len(attrs)].Children =
                                                sa.Children \o nested.attributes]
                          ELSE attrs
            IN Walked(marked \o nested.attributes, nested.heap)

\* for l := 0; l < value.Len(); l++
ElementLoop(value, l, sa, newParents, isListOfPrimitives, tags, ignored, w) ==
    IF ~Evaluated(w) \/ l > Len(value.elems) THEN w
    ELSE ElementLoop(value, l + 1, sa, newParents, isListOfPrimitives, tags, ignored,
                     Element(value, l, sa, newParents, isListOfPrimitives, tags, ignored, w))

\* one iteration of the loop over the fields of the struct rv: the field at
\* `position` (numbered from 1 here), w what the iterations before it left
Field(rv, position, parents, tags, ignored, currentIndex, w) ==
    LET value == PointerElement(rv.fields[position].v).el
        rsf   == rv.fields[position].sf
        sa    == StructAttribute(value, rsf, parents, <<>>, currentIndex, FALSE)
        ap    == AppendOne(w.heap, parents, sa)
        isListOfPrimitives ==
            /\ Len(value.elems) > 0
            /\ ~(value.elems[1].kind = "struct")
            /\ ~IsGoogleUUID(value)
    IN CASE IsAnonymous(sa) ->
              LET anonValues == getAttributes(value, parents, tags, ignored,
                                              currentIndex, w.heap)
              IN Walked(w.attributes \o anonValues.attributes, anonValues.heap)
         [] ~IsAnonymous(sa) /\ Excluded(sa, rsf, tags, ignored) -> w
         [] OTHER ->
              CASE value.kind = "struct" ->
                     LET nested == getAttributes(value, ap.slice, tags, ignored, -1, ap.heap)
                     IN Walked(Save(w.attributes, sa) \o nested.attributes, nested.heap)
                [] value.kind \in {"slice", "array"} ->
                     ElementLoop(value, 1, sa, ap.slice, isListOfPrimitives, tags, ignored,
                                 Walked(Save(w.attributes, sa), ap.heap))
                [] OTHER -> Walked(Save(w.attributes, sa), w.heap)

\* for position := 0; position < rv.NumField(); position++
FieldLoop(rv, position, parents, tags, ignored, currentIndex, w) ==
    IF ~Evaluated(w) \/ position > Len(rv.fields) THEN w
    ELSE FieldLoop(rv, position + 1, parents, tags, ignored, currentIndex,
                   Field(rv, position, parents, tags, ignored, currentIndex, w))

\* getAttributes(rv, parents, filterTags, ignoredFields, currentIndex) on heap h
getAttributes(rv, parents, tags, ignored, currentIndex, h) ==
    LET v == IF rv.kind = "ptr" THEN PointerElement(rv).el ELSE rv
    IN IF v.kind # "struct" THEN Walked(<<>>, h)
       ELSE FieldLoop(v, 1, parents, tags, ignored, currentIndex, Walked(<<>>, h))

\* ------------------------------------------------------- record types
\* The struct fields of the record types the walker is run on: the name the
\* struct declares and the tag text, as reflect.StructField gives them.

Identifiable_UUID ==
    StructField(<<"U", "U", "I", "D">>,
        <<"j", "s", "o", "n", ":", "\"", "i", "d", "\"">>,
        FALSE)

Author_Id ==
    StructField(<<"I", "d">>,
        <<"j", "s", "o", "n", ":", "\"", "i", "d", "\"">>,
        FALSE)

Person_Name ==
    StructField(<<"N", "a", "m", "e">>,
        <<"j", "s", "o", "n", ":", "\"", "n", "a", "m", "e", "\"", " ", "d", "b", ":",
          "\"", "n", "a", "m", "e", "\"">>,
        FALSE)

Person_Emails ==
    StructField(<<"E", "m", "a", "i", "l", "s">>,
        <<"j", "s", "o", "n", ":", "\"", "e", "m", "a", "i", "l", "s", "\"", " ", "d", "b",
          ":", "\"", "e", "m", "a", "i", "l", "s", "\"", " ", "v", "a", "l", "i", "d", "a",
          "t", "e", ":", "\"", "m", "i", "n", "=", "1", ",", "m", "a", "x", "=", "3", "\"">>,
        FALSE)

Person_IsActive ==
    StructField(<<"I", "s", "A", "c", "t", "i", "v", "e">>,
        <<>>,
        FALSE)

Person_PhoneNumbers ==
    StructField(<<"P", "h", "o", "n", "e", "N", "u", "m", "b", "e", "r", "s">>,
        <<"j", "s", "o", "n", ":", "\"", "p", "h", "o", "n", "e", "s", "\"">>,
        FALSE)

Article_Title ==
    StructField(<<"T", "i", "t", "l", "e">>,
        <<"j", "s", "o", "n", ":", "\"", "t", "i", "t", "l", "e", "\"">>,
        FALSE)

Article_Authors ==
    StructField(<<"A", "u", "t", "h", "o", "r", "s">>,
        <<"j", "s", "o", "n", ":", "\"", "a", "u", "t", "h", "o", "r", "s", "\"">>,
        FALSE)

Page_Identifiable ==
    StructField(<<"I", "d", "e", "n", "t", "i", "f", "i", "a", "b", "l", "e">>,
        <<>>,
        TRUE)

Page_PageID ==
    StructField(<<"P", "a", "g", "e", "I", "D">>,
        <<"j", "s", "o", "n", ":", "\"", "p", "a", "g", "e", "_", "i", "d", "\"">>,
        FALSE)

Page_Articles ==
    StructField(<<"A", "r", "t", "i", "c", "l", "e", "s">>,
        <<"j", "s", "o", "n", ":", "\"", "a", "r", "t", "i", "c", "l", "e", "s", "\"">>,
        FALSE)

File_Dir ==
    StructField(<<"D", "i", "r">>,
        <<"j", "s", "o", "n", ":", "\"", "d", "i", "r", "\"">>,
        FALSE)

File_Paths ==
    StructField(<<"P", "a", "t", "h", "s">>,
        <<"j", "s", "o", "n", ":", "\"", "p", "a", "t", "h", "s", "\"">>,
        FALSE)

SSD_Owner ==
    StructField(<<"O", "w", "n", "e", "r">>,
        <<"j", "s", "o", "n", ":", "\"", "o", "w", "n", "e", "r", "\"">>,
        FALSE)

SSD_Files ==
    StructField(<<"F", "i", "l", "e", "s">>,
        <<"j", "s", "o", "n", ":", "\"", "f", "i", "l", "e", "s", "\"">>,
        FALSE)

S2_C ==
    StructField(<<"C">>,
        <<"j", "s", "o", "n", ":", "\"", "c", "\"", " ", "v", "a", "l", "i", "d", "a", "t",
          "e", ":", "\"", "c", "u", "r", "r", "e", "n", "c", "y", "\"">>,
        FALSE)

S2_F ==
    StructField(<<"F">>,
        <<"j", "s", "o", "n", ":", "\"", "f", "\"", " ", "v", "a", "l", "i", "d", "a", "t",
          "e", ":", "\"", "m", "i", "n", "=", "\"">>,
        FALSE)

S2_G ==
    StructField(<<"G">>,
        <<"j", "s", "o", "n", ":", "\"", "g", "\"", " ", "v", "a", "l", "i", "d", "a", "t",
          "e", ":", "\"", "u", "u", "i", "d", "\"">>,
        FALSE)

S2_H ==
    StructField(<<"H">>,
        <<"j", "s", "o", "n", ":", "\"", "h", "\"", " ", "v", "a", "l", "i", "d", "a", "t",
          "e", ":", "\"", "i", "n", "=", "1", "|", "2", "\"">>,
        FALSE)

S2_K ==
    StructField(<<"K">>,
        <<"j", "s", "o", "n", ":", "\"", "k", "\"", " ", "v", "a", "l", "i", "d", "a", "t",
          "e", ":", "\"", "e", "m", "a", "i", "l", "\"">>,
        FALSE)

S2_L ==
    StructField(<<"L">>,
        <<"j", "s", "o", "n", ":", "\"", "l", "\"", " ", "v", "a", "l", "i", "d", "a", "t",
          "e", ":", "\"", "d", "a", "t", "e", "t", "i", "m", "e", "\"">>,
        FALSE)

S2_M ==
    StructField(<<"M">>,
        <<"j", "s", "o", "n", ":", "\"", "m", "\"", " ", "v", "a", "l", "i", "d", "a", "t",
          "e", ":", "\"", "m", "i", "n", "=", "3", "\"">>,
        FALSE)

Box_Inner ==
    StructField(<<"I", "n", "n", "e", "r">>,
        <<"j", "s", "o", "n", ":", "\"", "i", "n", "n", "e", "r", "\"">>,
        FALSE)

\* ------------------------------------------------------------ records

StringOf(val) == Val("string", "", <<>>, <<>>, val)

BoolOf(b) == Val("bool", "", <<>>, <<>>, IF b THEN <<"t">> ELSE <<"f">>)

IntOf(val) == Val("int", "", <<>>, <<>>, val)

Ptr(v) == Val("ptr", "", <<v>>, <<>>, <<>>)

NilPtr == Val("ptr", "", <<>>, <<>>, <<>>)

\* reflect.ValueOf(nil)
Invalid == Val("invalid", "", <<>>, <<>>, <<>>)

SliceOf(elems) == Val("slice", "", elems, <<>>, <<>>)

Struct(typ, fields) == Val("struct", typ, <<>>, fields, <<>>)

FieldOf(sf, v) == [sf |-> sf, v |-> v]

\* n strings  c0, c1, ...
Strings(c, n) == [k \in 1..n |-> StringOf(<<c>> \o Itoa(k - 1))]

OptString(set, val) == IF set THEN Ptr(StringOf(val)) ELSE NilPtr

Identifiable == Struct("Identifiable", <<FieldOf(Identifiable_UUID, StringOf(<<"u">>))>>)

Author(id) == Struct("Author", <<FieldOf(Author_Id, StringOf(id))>>)

Person(name, emails, isActive, phones) ==
    Struct("Person", <<FieldOf(Person_Name, name),
                       FieldOf(Person_Emails, SliceOf(emails)),
                       FieldOf(Person_IsActive, isActive),
                       FieldOf(Person_PhoneNumbers, SliceOf(phones))>>)

Article(authors) ==
    Struct("Article", <<FieldOf(Article_Title, StringOf(<<"t">>)),
                        FieldOf(Article_Authors, SliceOf(authors))>>)

Page(articles) ==
    Struct("Page", <<FieldOf(Page_Identifiable, Identifiable),
                     FieldOf(Page_PageID, StringOf(<<"p">>)),
                     FieldOf(Page_Articles, SliceOf(articles))>>)

File(dir, paths) ==
    Struct("File", <<FieldOf(File_Dir, dir), FieldOf(File_Paths, paths)>>)

SSD(owner, files) ==
    Struct("SSD", <<FieldOf(SSD_Owner, owner), FieldOf(SSD_Files, SliceOf(files))>>)

S2(set) ==
    Struct("S2", <<FieldOf(S2_C, OptString(set, <<"c">>)),
                   FieldOf(S2_F, StringOf(<<"f">>)),
                   FieldOf(S2_G, OptString(set, <<"g">>)),
                   FieldOf(S2_H, OptString(set, <<"h">>)),
                   FieldOf(S2_K, OptString(set, <<"k">>)),
                   FieldOf(S2_L, OptString(set, <<"l">>)),
                   FieldOf(S2_M, IF set THEN Ptr(IntOf(<<"3">>)) ELSE NilPtr)>>)

\* a record that holds v in its one field
Box(v) == Struct("Box", <<FieldOf(Box_Inner, v)>>)

RECURSIVE Nest(_, _)
\* v inside n nested records
Nest(v, n) == IF n = 0 THEN v ELSE Box(Nest(v, n - 1))

\* ------------------------------------------------------------- inputs

\* deepest nesting of a generated record inside one-field records
MaxNest == 2

Lens == 0..MaxLen

Persons ==
    {Person(OptString(n, <<"n">>), Strings("e", e), IF a THEN Ptr(BoolOf(TRUE)) ELSE NilPtr,
            Strings("p", p)) : n \in BOOLEAN, a \in BOOLEAN, e \in Lens, p \in Lens}

Files ==
    {File(OptString(d, <<"d">>), paths) :
        d \in BOOLEAN, paths \in {NilPtr} \cup {Ptr(SliceOf(Strings("q", n))) : n \in Lens}}

\* pages of n articles, article k with c[k] authors
Pages ==
    UNION {{Page([k \in 1..n |-> Article([j \in 1..c[k] |-> Author(<<"a">> \o Itoa(j - 1))])]) :
               c \in [1..n -> Lens]} : n \in Lens}

\* disks: an owner with e emails and at most one phone number, f files of q
\* paths each, q none or as many as a list may hold
SSDs ==
    {SSD(Person(OptString(TRUE, <<"n">>), Strings("e", e), NilPtr, Strings("p", p)),
         [k \in 1..f |-> File(NilPtr, Ptr(SliceOf(Strings("q", q))))]) :
        e \in Lens, p \in 0..1, f \in Lens, q \in {0, MaxLen}}

Flats == {S2(set) : set \in BOOLEAN} \cup {Identifiable, Author(<<"a">>)}

\* what is no record: a number, a pointer to a string, nil, an empty record
Scalars == {IntOf(<<"4">>), Ptr(StringOf(<<"s">>)), Invalid, NilPtr, Struct("", <<>>)}

Records == Persons \cup Files \cup Pages \cup SSDs \cup Flats

Entities ==
    Scalars \cup {Nest(r, n) : r \in Records, n \in 0..MaxNest}
            \cup {Ptr(r) : r \in Flats}

S_Emails == <<"E", "m", "a", "i", "l", "s">>
S_emails == <<"e", "m", "a", "i", "l", "s">>
S_Owner == <<"O", "w", "n", "e", "r">>
S_Paths == <<"P", "a", "t", "h", "s">>
S_Name == <<"N", "a", "m", "e">>
S_Identifiable == <<"I", "d", "e", "n", "t", "i", "f", "i", "a", "b", "l", "e">>

FilterChoices ==
    {<<>>, <<S_db>>, <<S_json>>, <<S_db, S_json>>, <<S_json, S_db>>,
     <<VALIDATION_TAG_KEYWORD>>}

IgnoreChoices ==
    {<<>>, <<S_Emails>>, <<S_emails>>, <<S_Owner>>, <<S_Paths, S_Name>>,
     <<S_Identifiable, <<"F">>>>}

\* ------------------------------------------------------------ numbers

Digits == {Digit(d) : d \in 0..9}

IsDigits(s) == Len(s) > 0 /\ \A i \in 1..Len(s) : s[i] \in Digits

DigitValue(c) == CHOOSE d \in 0..9 : Digit(d) = c

RECURSIVE Atoi(_)
\* the number a string of decimal digits writes
Atoi(s) ==
    IF Len(s) = 0 THEN 0
    ELSE 10 * Atoi(SubSeq(s, 1, Len(s) - 1)) + DigitValue(s[Len(s)])

RECURSIVE Pow10(_)
Pow10(k) == IF k = 0 THEN 1 ELSE 10 * Pow10(k - 1)

\* the sign a number text begins with (1 or -1) and the text after it
Signed(s) ==
    IF Len(s) > 0 /\ s[1] \in {"+", "-"}
    THEN [sign |-> IF s[1] = "-" THEN -1 ELSE 1, rest |-> Tail(s)]
    ELSE [sign |-> 1, rest |-> s]

\* strconv.ParseInt(s, 10, 64), for texts short enough not to leave the range
ParseInt(s) ==
    LET t == Signed(s)
    IN IF IsDigits(t.rest) THEN [ok |-> TRUE, n |-> t.sign * Atoi(t.rest)]
       ELSE [ok |-> FALSE, n |-> 0]

\* a float64 as the fraction num / den, den a power of ten
Float(num, den) == [num |-> num, den |-> den]

\* strconv.ParseFloat(s, 64) on the decimal texts  [+-]digits[.digits]  ; every
\* other text the inputs here hold (letters, the empty text) is an error
ParseFloat(s) ==
    LET t     == Signed(s)
        dot   == IndexByte(t.rest, ".")
        whole == IF dot = 0 THEN t.rest ELSE SubSeq(t.rest, 1, dot - 1)
        frac  == IF dot = 0 THEN <<>> ELSE SubSeq(t.rest, dot + 1, Len(t.rest))
    IN IF /\ Len(whole) + Len(frac) > 0
          /\ \A i \in 1..Len(whole) : whole[i] \in Digits
          /\ \A i \in 1..Len(frac) : frac[i] \in Digits
       THEN [ok |-> TRUE,
             f  |-> Float(t.sign * (Atoi(whole) * Pow10(Len(frac)) + Atoi(frac)),
                          Pow10(Len(frac)))]
       ELSE [ok |-> FALSE, f |-> Float(0, 1)]

\* a >= b, a <= b and a == b on float64
FloatGeq(a, b) == a.num * b.den >= b.num * a.den

FloatLeq(a, b) == a.num * b.den <= b.num * a.den

FloatEq(a, b) == a.num * b.den = b.num * a.den

\* reflect.Value.Int() and reflect.Value.Float() of a number value, whose
\* text is the value's Go literal
ValueInt(v) == ParseInt(v.val).n

ValueFloat(v) == ParseFloat(v.val).f

\* reflect.Value.Len()
ValueLen(v) == IF v.kind = "string" THEN Len(v.val) ELSE Len(v.elems)

\* ------------------------------------------------------------ formats

LowerCase ==
    <<"a", "b", "c", "d", "e", "f", "g", "h", "i", "j", "k", "l", "m",
      "n", "o", "p", "q", "r", "s", "t", "u", "v", "w", "x", "y", "z">>

UpperCase ==
    <<"A", "B", "C", "D", "E", "F", "G", "H", "I", "J", "K", "L", "M",
      "N", "O", "P", "Q", "R", "S", "T", "U", "V", "W", "X", "Y", "Z">>

Letters == {LowerCase[i] : i \in 1..26} \cup {UpperCase[i] : i \in 1..26}

\* the upper-case form of a text
ToUpper(s) ==
    [k \in 1..Len(s) |->
        IF \E i \in 1..26 : LowerCase[i] = s[k]
        THEN UpperCase[CHOOSE i \in 1..26 : LowerCase[i] = s[k]]
        ELSE s[k]]

HexDigits == Digits \cup {"a", "b", "c", "d", "e", "f"}

\* IsUUID(value): ^[0-9a-f]{8}-[0-9a-f]{4}-[0-9a-f]{4}-[0-9a-f]{4}-[0-9a-f]{12}$
IsUUID(value) ==
    /\ Len(value) = 36
    /\ \A i \in 1..36 :
         IF i \in {9, 14, 19, 24} THEN value[i] = "-" ELSE value[i] \in HexDigits

\* the currency codes of ISO 4217 that the values here are taken from
KnownCurrencies ==
    {<<"A", "U", "D">>, <<"B", "R", "L">>, <<"E", "U", "R">>, <<"U", "S", "D">>}

\* currency.ParseISO(s) gives no error: three letters, in either case, that
\* are a code of the table
IsCurrency(s) == Len(s) = 3 /\ ToUpper(s) \in KnownCurrencies

\* the two digits at s[i], s[i + 1] are a number from lo to hi
TwoDigits(s, i, lo, hi) ==
    /\ s[i] \in Digits /\ s[i + 1] \in Digits
    /\ Atoi(SubSeq(s, i, i + 1)) >= lo
    /\ Atoi(SubSeq(s, i, i + 1)) <= hi

\* time.Parse(time.RFC3339, s) gives no error, for texts without fractional
\* seconds: 2006-01-02T15:04:05 followed by Z or by +07:00 / -07:00
IsRFC3339(s) ==
    /\ Len(s) \in {20, 25}
    /\ \A i \in 1..4 : s[i] \in Digits
    /\ s[5] = "-" /\ TwoDigits(s, 6, 1, 12)
    /\ s[8] = "-" /\ TwoDigits(s, 9, 1, 31)
    /\ s[11] = "T" /\ TwoDigits(s, 12, 0, 23)
    /\ s[14] = ":" /\ TwoDigits(s, 15, 0, 59)
    /\ s[17] = ":" /\ TwoDigits(s, 18, 0, 59)
    /\ IF Len(s) = 20 THEN s[20] = "Z"
       ELSE /\ s[20] \in {"+", "-"}
            /\ TwoDigits(s, 21, 0, 23)
            /\ s[23] = ":"
            /\ TwoDigits(s, 24, 0, 59)

\* the characters of a dot-atom of an address
AtomChars == Letters \cup Digits \cup {"-", "_", "+"}

\* a dot-atom: atoms of one character or more, separated by single dots
IsDotAtom(s) ==
    /\ Len(s) > 0
    /\ \A i \in 1..Len(s) : s[i] \in AtomChars \cup {"."}
    /\ s[1] # "." /\ s[Len(s)] # "."
    /\ \A i \in 1..(Len(s) - 1) : ~(s[i] = "." /\ s[i + 1] = ".")

\* mail.ParseAddress(s) gives no error, for texts that are a bare address
\* (no display name, no angle brackets, no quoting): local@domain
IsAddress(s) ==
    LET at == IndexByte(s, "@")
    IN /\ at # 0
       /\ IsDotAtom(SubSeq(s, 1, at - 1))
       /\ IsDotAtom(SubSeq(s, at + 1, Len(s)))

\* --------------------------------------------------------- validators

CURRENCY == <<"c", "u", "r", "r", "e", "n", "c", "y">>

DATETIME == <<"d", "a", "t", "e", "t", "i", "m", "e">>

EMAIL == <<"e", "m", "a", "i", "l">>

EQUAL == <<"e", "q">>

\* IN (a word TLA+ keeps for itself)
IN_RULE == <<"i", "n">>

MAX == <<"m", "a", "x">>

MIN == <<"m", "i", "n">>

REGEX == <<"r", "e", "g", "e", "x">>

URL == <<"u", "r", "l">>

UUID == <<"u", "u", "i", "d">>

\* Errors["format"], Errors["length"], Errors["type"], Errors["value"]
Errors ==
    [format |-> "INVALID_FORMAT", length |-> "INVALID_LENGTH",
     type |-> "INVALID_TYPE", value |-> "INVALID_VALUE"]

\* ValidationOptions{Ignore, SkipRules}
ValidationOptions(ignore, skip) == [Ignore |-> ignore, SkipRules |-> skip]

\* reflect.Int, reflect.Int8, reflect.Int16, reflect.Int32, reflect.Int64
IntKinds == {"int", "int8", "int16", "int32", "int64"}

\* reflect.Float32, reflect.Float64
FloatKinds == {"float32", "float64"}

\* reflect.Uint, reflect.Uint8, reflect.Uint16, reflect.Uint32, reflect.Uint64
UintKinds == {"uint", "uint8", "uint16", "uint32", "uint64"}

RECURSIVE IsInInts(_, _, _)
\* the loop of IsIn over the candidates, for a value of an int kind
IsInInts(value, acceptedValues, k) ==
    IF k > Len(acceptedValues) THEN FALSE
    ELSE LET vf == ParseInt(acceptedValues[k])
         IN IF ~vf.ok THEN FALSE
            ELSE IF vf.n = ValueInt(value) THEN TRUE
            ELSE IsInInts(value, acceptedValues, k + 1)

RECURSIVE IsInFloats(_, _, _)
\* the loop of IsIn over the candidates, for a value of a float kind
IsInFloats(value, acceptedValues, k) ==
    IF k > Len(acceptedValues) THEN FALSE
    ELSE LET vf == ParseFloat(acceptedValues[k])
         IN IF ~vf.ok THEN FALSE
            ELSE IF FloatEq(vf.f, ValueFloat(value)) THEN TRUE
            ELSE IsInFloats(value, acceptedValues, k + 1)

\* IsIn(value, acceptedValues)
IsIn(value, acceptedValues) ==
    CASE value.kind = "string" -> Contains(acceptedValues, value.val)
      [] value.kind \in IntKinds -> IsInInts(value, acceptedValues, 1)
      [] value.kind \in FloatKinds -> IsInFloats(value, acceptedValues, 1)
      [] OTHER -> FALSE

\* IsValidLength(v, length, rule): the measure starts out as -42 and is set
\* for the kinds the switch names
IsValidLength(v, length, rule) ==
    LET value == CASE v.kind \in {"string", "slice", "array", "map"} -> Float(ValueLen(v), 1)
                   [] v.kind \in IntKinds -> Float(ValueInt(v), 1)
                   [] v.kind \in FloatKinds -> ValueFloat(v)
                   [] OTHER -> Float(-42, 1)
    IN IF rule = MIN THEN FloatGeq(value, length)
       ELSE IF rule = MAX THEN FloatLeq(value, length)
       ELSE FloatEq(value, length)

\* PassesRegex(pattern, str), for the patterns that are plain text: the text
\* occurs in str
PassesRegex(pattern, str) ==
    \E i \in 1..(Len(str) - Len(pattern) + 1) :
        SubSeq(str, i, i + Len(pattern) - 1) = pattern

\* parsedLengthAttribute(value): ok is false where the code returns an error
parsedLengthAttribute(value) ==
    IF value = <<>> THEN [ok |-> FALSE, f |-> Float(0, 1)]
    ELSE ParseFloat(value)

\* FORMAT_ERROR, VALUE_ERROR and TYPE_ERROR of ValidateAttribute
FORMAT_ERROR == <<Errors.format>>

VALUE_ERROR == <<Errors.value>>

TYPE_ERROR == <<Errors.type>>

\* what one rule makes of the loop over the rules: `return errs`, or on to
\* the next rule with what `validations` holds so far (collected)
Return(errs) == [returns |-> TRUE, validations |-> errs]

Continue(collected) == [returns |-> FALSE, validations |-> collected]

\* the body of the loop of ValidateAttribute for one rule of the tag
ValidateRule(attribute, options, validationRule, collected) ==
    LET indexOfAsignment == IndexByte(validationRule, "=")
        ruleType  == IF indexOfAsignment # 0
                     THEN SubSeq(validationRule, 1, indexOfAsignment - 1)
                     ELSE validationRule
        ruleValue == IF indexOfAsignment # 0
                     THEN SubSeq(validationRule, indexOfAsignment + 1, Len(validationRule))
                     ELSE <<>>
        pe   == PointerElement(attribute.Value)
        f    == pe.el
        list == f.kind \in {"array", "slice"}
    IN IF Contains(options.SkipRules, ruleType) THEN Continue(collected)
       ELSE CASE ruleType = CURRENCY ->
                   IF pe.err THEN Return(VALUE_ERROR)
                   ELSE IF list THEN Continue(collected)
                   ELSE IF f.kind = "string"
                        THEN IF ~IsCurrency(f.val) THEN Return(VALUE_ERROR)
                             ELSE Continue(collected)
                   ELSE Return(TYPE_ERROR)
              [] ruleType = DATETIME ->
                   IF pe.err THEN Return(FORMAT_ERROR)
                   ELSE IF list THEN Continue(collected)
                   ELSE IF f.kind = "string"
                        THEN IF ~IsRFC3339(f.val) THEN Return(FORMAT_ERROR)
                             ELSE Continue(collected)
                   ELSE Return(TYPE_ERROR)
              [] ruleType = EMAIL ->
                   IF pe.err THEN Return(FORMAT_ERROR)
                   ELSE IF list THEN Continue(collected)
                   ELSE IF f.kind = "string"
                        THEN IF ~IsAddress(f.val) THEN Return(FORMAT_ERROR)
                             ELSE Continue(collected)
                   ELSE Return(TYPE_ERROR)
              [] ruleType \in {EQUAL, MAX, MIN} ->
                   LET length == parsedLengthAttribute(ruleValue)
                   IN IF ~length.ok THEN Return(VALUE_ERROR)
                      ELSE IF pe.err THEN Return(VALUE_ERROR)
                      ELSE IF ~IsValidLength(f, length.f, ruleType)
                           THEN IF f.kind \in IntKinds \cup FloatKinds
                                THEN Return(VALUE_ERROR)
                                ELSE Return(Append(collected, Errors.length))
                      ELSE Continue(collected)
              [] ruleType = IN_RULE ->
                   IF pe.err THEN Return(VALUE_ERROR)
                   ELSE IF list THEN Continue(collected)
                   ELSE IF ~IsIn(f, Split(ruleValue, "|")) THEN Return(VALUE_ERROR)
                   ELSE Continue(collected)
              [] ruleType = UUID ->
                   IF pe.err THEN Return(FORMAT_ERROR)
                   ELSE IF list THEN Continue(collected)
                   ELSE IF f.kind = "string"
                        THEN IF ~IsUUID(f.val) /\ Len(collected) = 0
                             THEN Return(FORMAT_ERROR)
                             ELSE Continue(collected)
                   ELSE Return(TYPE_ERROR)
              [] OTHER -> Continue(collected)

RECURSIVE RuleLoopOn(_, _, _, _, _)
\* a loop over the rules that a return does not end: what each rule gives is
\* collected
RuleLoopOn(attribute, options, rules, k, collected) ==
    IF k > Len(rules) THEN collected
    ELSE LET r == ValidateRule(attribute, options, rules[k], <<>>)
         IN RuleLoopOn(attribute, options, rules, k + 1, collected \o r.validations)

RECURSIVE RuleLoop(_, _, _, _, _)
\* for _, validationRule := range rules, from rule k on
RuleLoop(attribute, options, rules, k, collected) ==
    IF k > Len(rules) THEN collected
    ELSE LET r == ValidateRule(attribute, options, rules[k], collected)
         IN IF r.returns THEN r.validations
            ELSE RuleLoop(attribute, options, rules, k + 1, r.validations)

\* ValidateAttribute(attribute, options)
ValidateAttribute(attribute, options) ==
    RuleLoop(attribute, options,
             GetTagValues(attribute.Field, VALIDATION_TAG_KEYWORD), 1, <<>>)

\* ------------------------------------------ record types of the validators
\* The struct fields of the records Validate is run on. Identifiable, Contact
\* and Person are those of the validators' tests (named VIdentifiable and
\* VPerson here, apart from the walker's records of the same names); Bundle
\* and Kit are records with a list that carries a size rule, followed by
\* fields of their own:
\*   type Part struct { Code string `json:"code" validate:"uuid"` }
\*   type Bundle struct { Codes []string `json:"codes" validate:"uuid,max=3"`
\*                        Label string `json:"label" validate:"uuid"`
\*                        Note string `json:"note" validate:"uuid"` }
\*   type Kit struct { Parts []Part `json:"parts" validate:"max=1"`
\*                     Label string `json:"label" validate:"uuid"` }

VIdentifiable_UUID ==
    StructField(<<"U", "U", "I", "D">>,
        <<"j", "s", "o", "n", ":", "\"", "i", "d", "\"", " ", "v", "a", "l", "i", "d",
          "a", "t", "e", ":", "\"", "u", "u", "i", "d", "\"">>,
        FALSE)

Contact_IsActive ==
    StructField(<<"I", "s", "A", "c", "t", "i", "v", "e">>,
        <<"j", "s", "o", "n", ":", "\"", "i", "s", "_", "a", "c", "t", "i", "v", "e",
          "\"">>,
        FALSE)

Contact_Emails ==
    StructField(<<"E", "m", "a", "i", "l", "s">>,
        <<"j", "s", "o", "n", ":", "\"", "e", "m", "a", "i", "l", "s", "\"", " ", "d",
          "b", ":", "\"", "e", "m", "a", "i", "l", "s", "\"", " ", "v", "a", "l", "i",
          "d", "a", "t", "e", ":", "\"", "e", "m", "a", "i", "l", ",", "m", "i", "n",
          "=", "1", "\"">>,
        FALSE)

Contact_PhoneNumbers ==
    StructField(<<"P", "h", "o", "n", "e", "N", "u", "m", "b", "e", "r", "s">>,
        <<"j", "s", "o", "n", ":", "\"", "p", "h", "o", "n", "e", "s", "\"">>,
        FALSE)

VPerson_Identifiable ==
    StructField(<<"I", "d", "e", "n", "t", "i", "f", "i", "a", "b", "l", "e">>,
        <<>>,
        TRUE)

VPerson_Name ==
    StructField(<<"N", "a", "m", "e">>,
        <<"j", "s", "o", "n", ":", "\"", "n", "a", "m", "e", "\"", " ", "d", "b", ":",
          "\"", "n", "a", "m", "e", "\"", " ", "v", "a", "l", "i", "d", "a", "t", "e",
          ":", "\"", "m", "i", "n", "=", "2", ",", "m", "a", "x", "=", "8", "\"">>,
        FALSE)

VPerson_Contact ==
    StructField(<<"C", "o", "n", "t", "a", "c", "t">>,
        <<"j", "s", "o", "n", ":", "\"", "c", "o", "n", "t", "a", "c", "t", "\"">>,
        FALSE)

Part_Code ==
    StructField(<<"C", "o", "d", "e">>,
        <<"j", "s", "o", "n", ":", "\"", "c", "o", "d", "e", "\"", " ", "v", "a", "l",
          "i", "d", "a", "t", "e", ":", "\"", "u", "u", "i", "d", "\"">>,
        FALSE)

\* the field Codes of a Bundle whose validate tag holds the given rules
Bundle_Codes(rules) ==
    StructField(<<"C", "o", "d", "e", "s">>,
        <<"j", "s", "o", "n", ":", "\"", "c", "o", "d", "e", "s", "\"", " ", "v", "a",
          "l", "i", "d", "a", "t", "e", ":", "\"">>
        \o rules \o <<"\"">>,
        FALSE)

Bundle_Label ==
    StructField(<<"L", "a", "b", "e", "l">>,
        <<"j", "s", "o", "n", ":", "\"", "l", "a", "b", "e", "l", "\"", " ", "v", "a",
          "l", "i", "d", "a", "t", "e", ":", "\"", "u", "u", "i", "d", "\"">>,
        FALSE)

Bundle_Note ==
    StructField(<<"N", "o", "t", "e">>,
        <<"j", "s", "o", "n", ":", "\"", "n", "o", "t", "e", "\"", " ", "v", "a", "l",
          "i", "d", "a", "t", "e", ":", "\"", "u", "u", "i", "d", "\"">>,
        FALSE)

Kit_Parts ==
    StructField(<<"P", "a", "r", "t", "s">>,
        <<"j", "s", "o", "n", ":", "\"", "p", "a", "r", "t", "s", "\"", " ", "v", "a",
          "l", "i", "d", "a", "t", "e", ":", "\"", "m", "a", "x", "=", "1", "\"">>,
        FALSE)

Kit_Label ==
    StructField(<<"L", "a", "b", "e", "l">>,
        <<"j", "s", "o", "n", ":", "\"", "l", "a", "b", "e", "l", "\"", " ", "v", "a",
          "l", "i", "d", "a", "t", "e", ":", "\"", "u", "u", "i", "d", "\"">>,
        FALSE)

\* texts that are, and that are not, of the formats the rules ask for
GoodUUID == <<"2", "b", "f", "9", "9", "c", "4", "2", "-", "4", "7", "7", "7", "-", "4", "7",
      "9", "6", "-", "9", "1", "3", "1", "-", "6", "c", "b", "c", "1", "3", "d", "9",
      "5", "1", "c", "8">>

BadUUID == <<"a", "b", "c">>

GoodEmail == <<"a", "@", "b", ".", "c", "o">>

BadEmail == <<"e", "m", "a", "i", "l">>

GoodDate == <<"2", "0", "2", "3", "-", "0", "1", "-", "0", "2", "T", "1", "5", ":", "0", "4",
      ":", "0", "5", "Z">>

BadDate == <<"2", "0", "2", "3">>

GoodCurrency == <<"U", "S", "D">>

BadCurrency == <<"U", "S">>

S_uuid_max_3 == <<"u", "u", "i", "d", ",", "m", "a", "x", "=", "3">>

S_uuid_max_none == <<"u", "u", "i", "d", ",", "m", "a", "x", "=">>

S_uuid_min_x == <<"u", "u", "i", "d", ",", "m", "i", "n", "=", "x">>

\* ------------------------------------------------ records of the validators

VIdentifiable(uuid) ==
    Struct("Identifiable", <<FieldOf(VIdentifiable_UUID, StringOf(uuid))>>)

Contact(isActive, emails, phones) ==
    Struct("Contact", <<FieldOf(Contact_IsActive, BoolOf(isActive)),
                        FieldOf(Contact_Emails, SliceOf(emails)),
                        FieldOf(Contact_PhoneNumbers, SliceOf(phones))>>)

VPerson(uuid, name, contact) ==
    Struct("Person", <<FieldOf(VPerson_Identifiable, VIdentifiable(uuid)),
                       FieldOf(VPerson_Name, StringOf(name)),
                       FieldOf(VPerson_Contact, contact)>>)

Part(code) == Struct("Part", <<FieldOf(Part_Code, StringOf(code))>>)

Bundle(rules, codes, label, note) ==
    Struct("Bundle", <<FieldOf(Bundle_Codes(rules), SliceOf(codes)),
                       FieldOf(Bundle_Label, StringOf(label)),
                       FieldOf(Bundle_Note, StringOf(note))>>)

Kit(parts, label) ==
    Struct("Kit", <<FieldOf(Kit_Parts, SliceOf(parts)),
                    FieldOf(Kit_Label, StringOf(label))>>)

\* the most elements a list of a Bundle or a Kit holds
MaxElems == 4

\* the lists of at most n texts, each text one of the two given
Texts(good, bad, n) ==
    UNION {[1..k -> {StringOf(good), StringOf(bad)}] : k \in 0..n}

VPersons ==
    {VPerson(uuid, name, Contact(FALSE, emails, Strings("p", p))) :
        uuid \in {GoodUUID, BadUUID}, name \in {<<"L", "e", "o">>, <<"L">>},
        emails \in Texts(GoodEmail, BadEmail, MaxLen), p \in 0..1}

Bundles ==
    {Bundle(rules, [k \in 1..n |-> StringOf(code)], label, note) :
        rules \in {S_uuid_max_3, S_uuid_max_none, S_uuid_min_x},
        n \in 0..MaxElems, code \in {GoodUUID, BadUUID},
        label \in {GoodUUID, BadUUID}, note \in {GoodUUID, BadUUID}}

Kits ==
    {Kit([k \in 1..n |-> Part(code)], label) :
        n \in 0..MaxElems, code \in {GoodUUID, BadUUID}, label \in {GoodUUID, BadUUID}}

\* the models Validate is called with
Models ==
    {Nest(p, n) : p \in VPersons, n \in 0..MaxNest}
        \cup Bundles \cup Kits \cup {S2(set) : set \in BOOLEAN}

S_Label == <<"L", "a", "b", "e", "l">>

\* the options Validate is called with
Options ==
    {ValidationOptions(<<>>, <<>>),
     ValidationOptions(<<S_Label>>, <<>>),
     ValidationOptions(<<S_Emails>>, <<>>),
     ValidationOptions(<<>>, <<UUID>>),
     ValidationOptions(<<>>, <<CURRENCY, UUID, DATETIME, IN_RULE>>)}

\* ------------------------------------------- calls of the pure functions

UintOf(val) == Val("uint", "", <<>>, <<>>, val)

FloatOf(val) == Val("float64", "", <<>>, <<>>, val)

\* the most rules a validate tag of a call holds
MaxRules == 2

\* the most candidates a call of IsIn is given
MaxAccepted == 3

S_in_1357 == <<"i", "n", "=", "1", "|", "3", "|", "5", "|", "7">>

S_regex_x == <<"r", "e", "g", "e", "x", "=", "x">>

S_min_5 == <<"m", "i", "n", "=", "5">>

S_max_1 == <<"m", "a", "x", "=", "1">>

S_eq_3 == <<"e", "q", "=", "3">>

S_min_none == <<"m", "i", "n", "=">>

S_max_x == <<"m", "a", "x", "=", "x">>

\* the rules a validate tag of a call is made of
RuleTexts ==
    {CURRENCY, DATETIME, EMAIL, UUID, URL, S_regex_x, S_in_1357,
     S_min_5, S_max_1, S_eq_3, S_min_none, S_max_x}

\* a field  F T `json:"f" validate:"rules[1],rules[2],..."`
RuleField(rules) ==
    StructField(<<"F">>,
        <<"j", "s", "o", "n", ":", "\"", "f", "\"", " ", "v", "a", "l", "i", "d", "a", "t", "e", ":", "\"">> \o Join(rules, <<",">>) \o <<"\"">>,
        FALSE)

\* the attribute the walker gives a field of that value
AttributeOf(value, rules) ==
    StructAttribute(value, RuleField(rules), Slice(0, 0), <<>>, -1, FALSE)

S_abc == <<"a", "b", "c">>

\* the values of the calls of ValidateAttribute
RuleValues ==
    {StringOf(GoodUUID), StringOf(GoodEmail), StringOf(GoodDate), StringOf(GoodCurrency),
     StringOf(S_abc), StringOf(<<"7">>),
     IntOf(<<"7">>), IntOf(<<"4", "2">>), UintOf(<<"1", "0">>), UintOf(<<"3">>),
     FloatOf(<<"5", ".", "5">>), FloatOf(<<"3">>), BoolOf(TRUE),
     NilPtr, Ptr(StringOf(S_abc)), Ptr(IntOf(<<"3">>)),
     SliceOf(Strings("e", 2)), SliceOf(<<>>)}

\* the SkipRules of the calls of ValidateAttribute
SkipChoices == {<<>>, <<UUID>>, <<CURRENCY, UUID, DATETIME, IN_RULE>>, <<MIN, EMAIL>>}

ValidateAttributeCalls ==
    {[op |-> "ValidateAttribute", attribute |-> AttributeOf(value, rules),
      options |-> ValidationOptions(<<>>, skip)] :
        value \in RuleValues,
        rules \in UNION {[1..n -> RuleTexts] : n \in 1..MaxRules},
        skip \in SkipChoices}

S_GUEST == <<"G", "U", "E", "S", "T">>

\* the candidates of the calls of IsIn
Candidates ==
    {<<"2">>, <<"7">>, <<"2", "a">>, S_GUEST, <<"7", ".", "0">>, <<"1", "0", ".", "2">>}

IsInCalls ==
    {[op |-> "IsIn", value |-> value, acceptedValues |-> acceptedValues] :
        value \in {StringOf(S_GUEST), StringOf(<<"7">>), StringOf(<<"W">>),
                   IntOf(<<"7">>), IntOf(<<"2">>), IntOf(<<"0">>),
                   FloatOf(<<"1", "0", ".", "2">>), FloatOf(<<"7">>),
                   UintOf(<<"7">>), BoolOf(TRUE), SliceOf(<<>>)},
        acceptedValues \in UNION {[1..n -> Candidates] : n \in 0..MaxAccepted}}

IsValidLengthCalls ==
    {[op |-> "IsValidLength", v |-> v, length |-> length, rule |-> rule] :
        v \in {StringOf(<<>>), StringOf(S_abc), StringOf(S_GUEST),
               SliceOf(<<>>), SliceOf(Strings("e", 1)), SliceOf(Strings("e", 3)),
               IntOf(<<"-", "1">>), IntOf(<<"3">>), IntOf(<<"1", "0">>),
               UintOf(<<"3">>), UintOf(<<"1", "0">>),
               FloatOf(<<"2", ".", "5">>), FloatOf(<<"3">>), BoolOf(TRUE)},
        length \in {Float(1, 1), Float(3, 1), Float(5, 1), Float(25, 10)},
        rule \in {MIN, MAX, EQUAL}}

\* ------------------------------------------------------- the state machine

Init ==
    /\ entity \in Entities
    /\ filterTags \in FilterChoices
    /\ ignoredFields \in IgnoreChoices
    /\ filterTags = <<>> \/ ignoredFields = <<>>
    /\ attributes = <<>>
    /\ heap = <<>>
    /\ pc = "ready"
    /\ skipRules = <<>>
    /\ validations = <<>>
    /\ pos = 0
    /\ call = <<>>
    /\ returned = <<>>
    /\ decoderErrors = <<>>

\* GetAttributes(entity, filterTags, ignoredFields...)
GetAttributes ==
    /\ pc = "ready"
    /\ LET currentIndex == 0
           parents == Slice(0, 0)
           walked  == getAttributes(entity, parents, filterTags, ignoredFields,
                                    currentIndex, <<>>)
       IN /\ attributes' = walked.attributes
          /\ heap' = walked.heap
    /\ pc' = "done"
    /\ UNCHANGED <<entity, filterTags, ignoredFields, skipRules, validations, pos, call, returned, decoderErrors>>

Next == GetAttributes

Spec == Init /\ [][Next]_vars

\* the full names of the returned attributes, in order, read after the walk
Names == [k \in 1..Len(attributes) |-> FullName(attributes[k], heap)]

\* ------------------------------------------------------------- Validate

\* validations[key] = errs on a map
Put(m, key, errs) ==
    [k \in DOMAIN m \cup {key} |-> IF k = key THEN errs ELSE m[k]]

InitValidate ==
    /\ entity \in Models
    /\ \E options \in Options :
         /\ ignoredFields = options.Ignore
         /\ skipRules = options.SkipRules
    /\ filterTags = <<>>
    /\ attributes = <<>>
    /\ heap = <<>>
    /\ pc = "ready"
    /\ validations = <<>>
    /\ pos = 0
    /\ call = <<>>
    /\ returned = <<>>
    /\ decoderErrors = <<>>

\* Validate(model, options) to the head of its loop: the empty map, and the
\* attributes of structs.GetAttributes(reflect.ValueOf(model), []string{},
\* options.Ignore...)
ValidateStart ==
    /\ pc = "ready"
    /\ LET walked == getAttributes(entity, Slice(0, 0), filterTags, ignoredFields, 0, <<>>)
       IN /\ attributes' = walked.attributes
          /\ heap' = walked.heap
    /\ validations' = <<>>
    /\ pos' = 0
    /\ pc' = "validating"
    /\ UNCHANGED <<entity, filterTags, ignoredFields, skipRules, call, returned, decoderErrors>>

\* one iteration of  for pos := 0; pos < len(attributes); pos++
ValidateStep ==
    /\ pc = "validating"
    /\ pos < Len(attributes)
    /\ LET attr == attributes[pos + 1]
           errs == ValidateAttribute(attr, ValidationOptions(ignoredFields, skipRules))
       IN IF Len(errs) # 0
          THEN /\ validations' = Put(validations, FullName(attr, heap), errs)
               /\ pos' = (IF attr.Value.kind \in {"slice", "array"}
                          THEN pos + SkipsPastLastChild(attr)
                          ELSE pos) + 1
          ELSE /\ validations' = validations
               /\ pos' = pos + 1
    /\ UNCHANGED <<entity, filterTags, ignoredFields, attributes, heap, pc, skipRules,
                   call, returned, decoderErrors>>

\* return validations
ValidateReturn ==
    /\ pc = "validating"
    /\ pos >= Len(attributes)
    /\ returned' = validations
    /\ pc' = "returned"
    /\ UNCHANGED <<entity, filterTags, ignoredFields, attributes, heap, skipRules,
                   validations, pos, call, decoderErrors>>

NextValidate == ValidateStart \/ ValidateStep \/ ValidateReturn

SpecValidate == InitValidate /\ [][NextValidate]_vars

\* --------------------------------------------------- the pure functions

InitRules ==
    /\ call \in ValidateAttributeCalls \cup IsInCalls \cup IsValidLengthCalls
    /\ returned = <<>>
    /\ decoderErrors = <<>>
    /\ pc = "ready"
    /\ entity = Invalid
    /\ filterTags = <<>>
    /\ ignoredFields = <<>>
    /\ attributes = <<>>
    /\ heap = <<>>
    /\ skipRules = <<>>
    /\ validations = <<>>
    /\ pos = 0

CallValidateAttribute ==
    /\ pc = "ready"
    /\ call.op = "ValidateAttribute"
    /\ returned' = ValidateAttribute(call.attribute, call.options)
    /\ pc' = "returned"
    /\ UNCHANGED <<entity, filterTags, ignoredFields, attributes, heap, skipRules,
                   validations, pos, call, decoderErrors>>

CallIsIn ==
    /\ pc = "ready"
    /\ call.op = "IsIn"
    /\ returned' = IsIn(call.value, call.acceptedValues)
    /\ pc' = "returned"
    /\ UNCHANGED <<entity, filterTags, ignoredFields, attributes, heap, skipRules,
                   validations, pos, call, decoderErrors>>

CallIsValidLength ==
    /\ pc = "ready"
    /\ call.op = "IsValidLength"
    /\ returned' = IsValidLength(call.v, call.length, call.rule)
    /\ pc' = "returned"
    /\ UNCHANGED <<entity, filterTags, ignoredFields, attributes, heap, skipRules,
                   validations, pos, call, decoderErrors>>

NextRules == CallValidateAttribute \/ CallIsIn \/ CallIsValidLength

SpecRules == InitRules /\ [][NextRules]_vars

\* ----------------------------------------------------------------- Decode

ADDITIONAL_PROPERTY == "additional_property_not_allowed"

REQUIRED_ATTRIBUTE == "required"

INVALID_TYPE == "invalid_type"

\* var DecodingErrors: the code of each kind of schema error
DecodingErrors ==
    [required |-> "REQUIRED_ATTRIBUTE_MISSING",
     invalid_payload |-> "INVALID_PAYLOAD",
     invalid_type |-> "INVALID_TYPE",
     additional_property_not_allowed |-> "ADDITIONAL_PROPERTY"]

\* DecodingErrors[key]: a map gives the empty string for a key it lacks
DecodingError(key) == IF key \in DOMAIN DecodingErrors THEN DecodingErrors[key] ELSE ""

\* strings.Index(s, sub) + 1: where sub first begins in s, 0 when it does not occur
Index(s, sub) ==
    LET at == {i \in 1..(Len(s) - Len(sub) + 1) : SubSeq(s, i, i + Len(sub) - 1) = sub}
    IN IF at = {} THEN 0 ELSE CHOOSE i \in at : \A j \in at : i <= j

\* where sub last begins in s, 0 when it does not occur
LastIndex(s, sub) ==
    LET at == {i \in 1..(Len(s) - Len(sub) + 1) : SubSeq(s, i, i + Len(sub) - 1) = sub}
    IN IF at = {} THEN 0 ELSE CHOOSE i \in at : \A j \in at : i >= j

\* strings.Contains(s, sub)
ContainsText(s, sub) == Index(s, sub) # 0

\* strings.Split(s, sep)[0]
SplitFirst(s, sep) ==
    LET i == Index(s, sep) IN IF i = 0 THEN s ELSE SubSeq(s, 1, i - 1)

\* strings.SplitAfter(s, sep)[1] for a one-character sep that occurs in s
SplitAfterSecond(s, c) ==
    LET rest == SubSeq(s, IndexByte(s, c) + 1, Len(s))
        j == IndexByte(rest, c)
    IN IF j = 0 THEN rest ELSE SubSeq(rest, 1, j)

RECURSIVE TrimLeft(_, _)
TrimLeft(s, c) == IF Len(s) > 0 /\ s[1] = c THEN TrimLeft(Tail(s), c) ELSE s

RECURSIVE TrimRight(_, _)
TrimRight(s, c) ==
    IF Len(s) > 0 /\ s[Len(s)] = c THEN TrimRight(SubSeq(s, 1, Len(s) - 1), c) ELSE s

\* strings.Trim(s, cutset) for a one-character cutset
Trim(s, c) == TrimRight(TrimLeft(s, c), c)

RECURSIVE DigitRun(_)
\* the number of leading digits of s
DigitRun(s) == IF Len(s) > 0 /\ s[1] \in Digits THEN 1 + DigitRun(Tail(s)) ELSE 0

RECURSIVE ReplaceIndexes(_)
\* regexp.MustCompile(`\.([0-9]+)`).ReplaceAllString(s, "[$1]")
ReplaceIndexes(s) ==
    IF Len(s) = 0 THEN <<>>
    ELSE LET n == DigitRun(Tail(s))
         IN IF s[1] = "." /\ n > 0
            THEN <<"[">> \o SubSeq(s, 2, n + 1) \o <<"]">>
                     \o ReplaceIndexes(SubSeq(s, n + 2, Len(s)))
            ELSE <<s[1]>> \o ReplaceIndexes(Tail(s))

S_root == <<"(", "r", "o", "o", "t", ")">>

S_colon_space == <<":", " ">>

S_Additional_property == <<"A", "d", "d", "i", "t", "i", "o", "n", "a", "l", " ", "p", "r", "o", "p", "e", "r", "t", "y">>

S_is_not_allowed == <<" ", "i", "s", " ", "n", "o", "t", " ", "a", "l", "l", "o", "w", "e", "d">>

S_required == <<"r", "e", "q", "u", "i", "r", "e", "d">>

S_Invalid_type == <<"I", "n", "v", "a", "l", "i", "d", " ", "t", "y", "p", "e">>

\* regexp `Additional property (.*) is not allowed`, FindStringSubmatch(str)[1]:
\* from the first "Additional property " to the last " is not allowed"
AdditionalPropertyName(str) ==
    LET from == Index(str, S_Additional_property \o <<" ">>) + Len(S_Additional_property) + 1
        rest == SubSeq(str, from, Len(str))
    IN SubSeq(rest, 1, LastIndex(rest, S_is_not_allowed) - 1)

\* jsonAttributeName(str): the attribute a schema error's text speaks of
jsonAttributeName(str) ==
    LET replaced == ReplaceIndexes(SplitFirst(str, S_colon_space))
        scope == IF replaced = S_root THEN <<>> ELSE replaced
    IN IF ContainsText(str, S_Additional_property) THEN AdditionalPropertyName(str)
       ELSE IF ContainsText(str, S_required)
       THEN LET name == Split(Trim(SplitAfterSecond(ReplaceIndexes(str), ":"), " "), " ")
            IN TrimPrefix(Join(<<scope, name[1]>>, <<".">>), <<".">>)
       ELSE IF ContainsText(str, S_Invalid_type) THEN scope
       ELSE str

\* a gojsonschema.ResultError: Type(), Field() and Description()
ResultError(type, field, description) ==
    [Type |-> type, Field |-> field, Description |-> description]

\* gojsonschema's ResultErrorFields.String(): field, a colon, description
String(err) == err.Field \o S_colon_space \o err.Description

\* DecoderOptions; the hooks are never set by ValidatePayload
DecoderOptions(rules) == [Rules |-> rules]

S_underscore == <<"_">>

\* Filter(collection, inclusionTest) with the test  Contains(rules, err.Type())
RECURSIVE Filter(_, _)
Filter(collection, rules) ==
    IF Len(collection) = 0 THEN <<>>
    ELSE (IF Contains(rules, collection[1].Type) THEN <<collection[1]>> ELSE <<>>)
             \o Filter(Tail(collection), rules)

RECURSIVE DecodeLoop(_, _)
\* for _, err := range res { validations[jsonAttributeName(err.String())] = ... }
DecodeLoop(res, collected) ==
    IF Len(res) = 0 THEN collected
    ELSE DecodeLoop(Tail(res),
                    Put(collected, jsonAttributeName(String(res[1])),
                        <<DecodingError(res[1].Type)>>))

\* Decode(data, model, options), its returned map.  data is the payload as
\* far as Decode looks at it: its length, whether gojsonschema.Validate
\* fails to load it, and the errors of the schema's result
Decode(data, options) ==
    IF data.len = 0 \/ Len(options.Rules) = 0 THEN <<>>
    ELSE IF data.verr THEN Put(<<>>, S_underscore, <<DecodingError("invalid_payload")>>)
    ELSE DecodeLoop(Filter(data.errors, options.Rules), <<>>)

\* ------------------------------------------------------- ValidatePayload

\* most errors in the result of one schema validation
MaxErrors == 2

S_id_is_required == <<"i", "d", " ", "i", "s", " ", "r", "e", "q", "u", "i", "r", "e", "d">>

S_expected_string == <<"I", "n", "v", "a", "l", "i", "d", " ", "t", "y", "p", "e", ".", " ", "E", "x", "p", "e", "c", "t", "e", "d", ":", " ", "s", "t", "r", "i", "n", "g", ",", " ", "g", "i", "v", "e", "n", ":", " ", "i", "n", "t", "e", "g", "e", "r">>

S_extra_not_allowed == <<"A", "d", "d", "i", "t", "i", "o", "n", "a", "l", " ", "p", "r", "o", "p", "e", "r", "t", "y", " ", "e", "x", "t", "r", "a", " ", "i", "s", " ", "n", "o", "t", " ", "a", "l", "l", "o", "w", "e", "d">>

S_one_of == <<"n", "a", "m", "e", " ", "m", "u", "s", "t", " ", "b", "e", " ", "o", "n", "e", " ", "o", "f", ":", " ", "L", "e", "o">>

S_name == <<"n", "a", "m", "e">>

S_contact_emails_0 == <<"c", "o", "n", "t", "a", "c", "t", ".", "e", "m", "a", "i", "l", "s", ".", "0">>

\* errors a schema validation of a Person payload reports
ResultErrors ==
    {ResultError(REQUIRED_ATTRIBUTE, S_root, S_id_is_required),
     ResultError(INVALID_TYPE, S_name, S_expected_string),
     ResultError(INVALID_TYPE, S_contact_emails_0, S_expected_string),
     ResultError(ADDITIONAL_PROPERTY, S_root, S_extra_not_allowed),
     ResultError("enum", S_name, S_one_of)}

Payload(len, verr, errors) == [len |-> len, verr |-> verr, errors |-> errors]

\* the payloads: no bytes at all, bytes that are not a JSON document, and
\* documents with the errors their schema validation reports
Payloads ==
    {Payload(0, TRUE, <<>>), Payload(1, TRUE, <<>>)}
        \cup {Payload(1, FALSE, errors) :
                 errors \in UNION {[1..k -> ResultErrors] : k \in 0..MaxErrors}}

\* the model as SetValuesFromBytes leaves it
PayloadModels ==
    {VPerson(uuid, name, Contact(FALSE, emails, <<>>)) :
        uuid \in {GoodUUID, <<>>}, name \in {<<"L", "e", "o">>, <<>>},
        emails \in Texts(GoodEmail, BadEmail, 1)}

PayloadOptions == {ValidationOptions(<<>>, <<>>), ValidationOptions(<<>>, <<UUID>>)}

InitPayload ==
    /\ call \in {[op |-> "ValidatePayload", data |-> data, options |-> options] :
                    data \in Payloads, options \in PayloadOptions}
    /\ entity \in PayloadModels
    /\ ignoredFields = call.options.Ignore
    /\ skipRules = call.options.SkipRules
    /\ filterTags = <<>>
    /\ attributes = <<>>
    /\ heap = <<>>
    /\ pc = "decoding"
    /\ validations = <<>>
    /\ pos = 0
    /\ returned = <<>>
    /\ decoderErrors = <<>>

\* ValidatePayload to its call of Validate: Decode with the three rules, and
\* the early return of the decoder's map when it has the key "_"
ValidatePayloadDecode ==
    /\ pc = "decoding"
    /\ LET rules == <<ADDITIONAL_PROPERTY, INVALID_TYPE, REQUIRED_ATTRIBUTE>>
           decoded == Decode(call.data, DecoderOptions(rules))
       IN /\ decoderErrors' = decoded
          /\ IF S_underscore \in DOMAIN decoded
             THEN /\ returned' = decoded
                  /\ pc' = "finished"
             ELSE /\ returned' = returned
                  /\ pc' = "ready"
    /\ UNCHANGED <<entity, filterTags, ignoredFields, attributes, heap, skipRules,
                   validations, pos, call>>

\* a merge in which the validator's codes win
MergeValidatorFirst(collected, errors) ==
    [k \in DOMAIN collected \cup DOMAIN errors |->
        IF k \in DOMAIN collected THEN collected[k] ELSE errors[k]]

\* for k, v := range decoderErrors { validations[k] = v }
Merge(collected, errors) ==
    [k \in DOMAIN collected \cup DOMAIN errors |->
        IF k \in DOMAIN errors THEN errors[k] ELSE collected[k]]

\* ValidatePayload after Validate returned: the merge into Validate's map
\* and the return of that map
ValidatePayloadMerge ==
    /\ pc = "returned"
    /\ validations' = Merge(validations, decoderErrors)
    /\ returned' = validations'
    /\ pc' = "finished"
    /\ UNCHANGED <<entity, filterTags, ignoredFields, attributes, heap, skipRules,
                   pos, call, decoderErrors>>

NextPayload ==
    ValidatePayloadDecode \/ ValidateStart \/ ValidateStep \/ ValidateReturn
        \/ ValidatePayloadMerge

SpecPayload == InitPayload /\ [][NextPayload]_vars

\* ------------------------------------------- calls of RemoveValuesFromTag

\* most entries in the validate tag of a call
MaxEntries == 3

S_eq_2 == <<"e", "q", "=", "2">>

\* the entries a validate tag of a call is made of
TagEntries == {UUID, EMAIL, S_min_5, S_max_1, S_eq_2}

\* a field  F T `json:"name" validate:"entries[1],entries[2],..."`
TagField(name, entries) ==
    StructField(<<"F">>,
        <<"j", "s", "o", "n", ":", "\"">> \o name
            \o <<"\"", " ", "v", "a", "l", "i", "d", "a", "t", "e", ":", "\"">>
            \o Join(entries, <<",">>) \o <<"\"">>,
        FALSE)

RemoveValuesFromTagCalls ==
    {[op |-> "RemoveValuesFromTag", tag |-> VALIDATION_TAG_KEYWORD,
      removeList |-> removeList, field |-> TagField(name, entries)] :
        removeList \in {NON_INHERITABLE_TAG_ATTRIBUTES, <<S_max>>, <<UUID>>},
        name \in {<<"f">>, S_max},
        entries \in UNION {[1..n -> TagEntries] : n \in 1..MaxEntries}}

InitTags ==
    /\ call \in RemoveValuesFromTagCalls
    /\ returned = <<>>
    /\ pc = "ready"
    /\ entity = Invalid
    /\ filterTags = <<>>
    /\ ignoredFields = <<>>
    /\ attributes = <<>>
    /\ heap = <<>>
    /\ skipRules = <<>>
    /\ validations = <<>>
    /\ pos = 0
    /\ decoderErrors = <<>>

CallRemoveValuesFromTag ==
    /\ pc = "ready"
    /\ call.op = "RemoveValuesFromTag"
    /\ returned' = RemoveValuesFromTag(call.tag, call.removeList, call.field)
    /\ pc' = "returned"
    /\ UNCHANGED <<entity, filterTags, ignoredFields, attributes, heap, skipRules,
                   validations, pos, call, decoderErrors>>

NextTags == CallRemoveValuesFromTag

SpecTags == InitTags /\ [][NextTags]_vars

\* ------------------- walks of lists of pointers and of uuid.UUID fields

\* a uuid.UUID is a [16]byte
UUIDBytes == 16

Team_Members ==
    StructField(<<"M", "e", "m", "b", "e", "r", "s">>,
        <<"j", "s", "o", "n", ":", "\"", "m", "e", "m", "b", "e", "r", "s", "\"">>,
        FALSE)

Tagged_Id ==
    StructField(<<"I", "d">>,
        <<"j", "s", "o", "n", ":", "\"", "i", "d", "\"">>,
        FALSE)

Tagged_Name ==
    StructField(<<"N", "a", "m", "e">>,
        <<"j", "s", "o", "n", ":", "\"", "n", "a", "m", "e", "\"">>,
        FALSE)

ByteOf(val) == Val("uint8", "", <<>>, <<>>, val)

\* a uuid.UUID whose bytes all hold b
GoogleUUID(b) == Val("array", "uuid.UUID", [k \in 1..UUIDBytes |-> ByteOf(b)], <<>>, <<>>)

\* type Team struct { Members []*Author `json:"members"` }
Team(members) == Struct("Team", <<FieldOf(Team_Members, SliceOf(members))>>)

\* type Tagged struct { Id uuid.UUID `json:"id"`; Name string `json:"name"` }
Tagged(id, name) ==
    Struct("Tagged", <<FieldOf(Tagged_Id, id), FieldOf(Tagged_Name, StringOf(name))>>)

Teams ==
    {Team(members) :
        members \in UNION {[1..n -> {Ptr(Author(<<"a">>)), Ptr(Author(<<"b">>)), NilPtr}] :
                              n \in 0..MaxLen}}

Taggeds ==
    {Tagged(GoogleUUID(b), name) : b \in {<<"0">>, <<"7">>}, name \in {<<"n">>, <<>>}}

InitLists ==
    /\ entity \in {Nest(r, n) : r \in Teams \cup Taggeds, n \in 0..MaxNest}
    /\ filterTags = <<>>
    /\ ignoredFields \in {<<>>, <<S_Name>>}
    /\ attributes = <<>>
    /\ heap = <<>>
    /\ pc = "ready"
    /\ skipRules = <<>>
    /\ validations = <<>>
    /\ pos = 0
    /\ call = <<>>
    /\ returned = <<>>
    /\ decoderErrors = <<>>

NextLists == GetAttributes

SpecLists == InitLists /\ [][NextLists]_vars

\* ------------------------------------------- calls of SkipsPastLastChild

\* most Children of an attribute of a call
MaxChildren == 3

\* StructAttribute{Children: children}
Parent(children) ==
    StructAttribute(Invalid, StructField(<<>>, <<>>, FALSE), Slice(0, 0), children, 0, FALSE)

\* the attributes whose Children are taken from the set below
Over(below) == {Parent(children) : children \in UNION {[1..n -> below] : n \in 0..MaxChildren}}

\* attributes with children and grandchildren
SkipsPastLastChildCalls ==
    {[op |-> "SkipsPastLastChild", sa |-> sa] : sa \in Over(Over({Parent(<<>>)}))}

InitSkips ==
    /\ call \in SkipsPastLastChildCalls
    /\ returned = -1
    /\ pc = "ready"
    /\ entity = Invalid
    /\ filterTags = <<>>
    /\ ignoredFields = <<>>
    /\ attributes = <<>>
    /\ heap = <<>>
    /\ skipRules = <<>>
    /\ validations = <<>>
    /\ pos = 0
    /\ decoderErrors = <<>>

CallSkipsPastLastChild ==
    /\ pc = "ready"
    /\ call.op = "SkipsPastLastChild"
    /\ returned' = SkipsPastLastChild(call.sa)
    /\ pc' = "returned"
    /\ UNCHANGED <<entity, filterTags, ignoredFields, attributes, heap, skipRules,
                   validations, pos, call, decoderErrors>>

NextSkips == CallSkipsPastLastChild

SpecSkips == InitSkips /\ [][NextSkips]_vars


\* ------------------------------------------------ the outline of a record
\* What the documentation of GetAttributes promises for an entity, written
\* without slices and without append: the fields in declaration order, each
\* container followed by what it holds, every node with its depth, its list
\* index (-1 outside a list) and its path name.

\* every struct field of the record types above
RecordFields ==
    {Identifiable_UUID, Author_Id, Person_Name, Person_Emails, Person_IsActive,
     Person_PhoneNumbers, Article_Title, Article_Authors, Page_Identifiable,
     Page_PageID, Page_Articles, File_Dir, File_Paths, SSD_Owner, SSD_Files,
     S2_C, S2_F, S2_G, S2_H, S2_K, S2_L, S2_M, Box_Inner}

\* the value behind the pointers of v, a nil pointer staying what it is
Deref(v) == PointerElement(v).el

IsList(v) == v.kind \in {"slice", "array"}

IsRecordList(v) == IsList(v) /\ Len(v.elems) > 0 /\ v.elems[1].kind = "struct"

\* an unset pointer or a list without elements
NilOrEmpty(v) == (v.kind = "ptr" /\ Len(v.elems) = 0) \/ (IsList(v) /\ Len(v.elems) = 0)

InBrackets(i) == <<"[">> \o Itoa(i) \o <<"]">>

\* the path name of a field: its external name at the top, below that the
\* parent's path, the list index when the field is inside a list element, a
\* dot and the external name
PathOf(parentPath, depth, index, external) ==
    IF depth = 0 THEN external
    ELSE parentPath \o (IF index >= 0 THEN InBrackets(index) ELSE <<>>) \o <<".">> \o external

Node(name, value, depth, index, prim, path) ==
    [name |-> name, value |-> value, depth |-> depth, index |-> index,
     prim |-> prim, path |-> path]

RECURSIVE Outline(_, _, _, _, _)
RECURSIVE OutlineFields(_, _, _, _, _, _)
RECURSIVE OutlineElements(_, _, _, _, _)

\* the node of the field f and the nodes beneath it; keep is the set of the
\* struct fields that are to appear
OutlineField(f, depth, index, parentPath, keep) ==
    LET value == Deref(f.v)
        path  == PathOf(parentPath, depth, index, GetJSONTagValue(f.sf))
    IN IF f.sf.Anonymous THEN Outline(f.v, depth, index, parentPath, keep)
       ELSE IF f.sf \notin keep THEN <<>>
       ELSE <<Node(f.sf.Name, value, depth, index, FALSE, path)>> \o
            (CASE value.kind = "struct" -> Outline(value, depth + 1, -1, path, keep)
               [] IsRecordList(value) -> OutlineElements(value, 1, depth + 1, path, keep)
               [] IsList(value) /\ ~IsRecordList(value) ->
                      [l \in 1..Len(value.elems) |->
                          Node(<<>>, value.elems[l], depth + 1, l - 1, TRUE,
                               path \o InBrackets(l - 1))]
               [] OTHER -> <<>>)

OutlineElements(value, l, depth, path, keep) ==
    IF l > Len(value.elems) THEN <<>>
    ELSE Outline(value.elems[l], depth, l - 1, path, keep)
         \o OutlineElements(value, l + 1, depth, path, keep)

OutlineFields(v, position, depth, index, parentPath, keep) ==
    IF position > Len(v.fields) THEN <<>>
    ELSE OutlineField(v.fields[position], depth, index, parentPath, keep)
         \o OutlineFields(v, position + 1, depth, index, parentPath, keep)

Outline(rv, depth, index, parentPath, keep) ==
    IF Deref(rv).kind # "struct" THEN <<>>
    ELSE OutlineFields(Deref(rv), 1, depth, index, parentPath, keep)

\* a node without its path name
Plain(n) ==
    [name |-> n.name, value |-> n.value, depth |-> n.depth, index |-> n.index,
     prim |-> n.prim]

\* the outline of the entity, restricted to the fields of keep
Plan(keep) ==
    LET o == Outline(entity, 0, -1, <<>>, keep)
    IN [k \in 1..Len(o) |-> Plain(o[k])]

\* the path names of the outline of the entity
Paths(keep) ==
    LET o == Outline(entity, 0, -1, <<>>, keep)
    IN [k \in 1..Len(o) |-> o[k].path]

\* what the outline records of a returned attribute: the native name (none
\* for the element of a list of primitives), the value, the number of
\* ancestors, the list index below the top level
Shape(a) ==
    [name  |-> IF a.isPrimitive THEN <<>> ELSE a.Field.Name,
     value |-> a.Value,
     depth |-> a.Parents.len,
     index |-> IF a.Parents.len = 0 THEN -1 ELSE a.ListPosition,
     prim  |-> a.isPrimitive]

Shapes == [k \in 1..Len(attributes) |-> Shape(attributes[k])]

\* the struct fields of the returned attributes
Emitted == {attributes[k].Field : k \in {j \in 1..Len(attributes) : ~attributes[j].isPrimitive}}

\* the Parents of the attribute a, read after the walk
ParentsOf(a) == Elems(heap, a.Parents)

\* the index of the attribute that attributes[k] was emitted under: the last
\* one before it with one ancestor less (0 at the top level)
ContainerOf(k) ==
    LET before == {j \in 1..(k - 1) : attributes[j].Parents.len = attributes[k].Parents.len - 1}
    IN IF before = {} THEN 0 ELSE CHOOSE j \in before : \A i \in before : i <= j

\* x and y are the same attribute, whatever Children were attached later
SameAttribute(x, y) ==
    /\ x.Field = y.Field
    /\ x.Value = y.Value
    /\ x.ListPosition = y.ListPosition
    /\ x.isPrimitive = y.isPrimitive
    /\ x.Parents.len = y.Parents.len

\* the entity lies inside at least n one-field records
RECURSIVE Nested(_, _)
Nested(v, n) ==
    \/ n = 0
    \/ /\ v.kind = "struct"
       /\ Len(v.fields) = 1
       /\ v.fields[1].sf = Box_Inner
       /\ Nested(v.fields[1].v, n - 1)

\* ------------------------------------------------------------- claims

Done == pc = "done"

Unfiltered == filterTags = <<>> /\ ignoredFields = <<>>

Depth(k) == attributes[k].Parents.len

\* the attribute is a field that holds a list of primitives (an empty list included)
IsPrimitiveList(a) == ~a.isPrimitive /\ IsList(a.Value) /\ ~IsRecordList(a.Value)

\* the list attribute at k is followed by its elements, one for each index,
\* named after the list, and by nothing else of its own
ElementsFollow(k) ==
    LET a == attributes[k]
        n == Len(a.Value.elems)
    IN /\ k + n <= Len(attributes)
       /\ \A i \in 1..n :
            /\ attributes[k + i].isPrimitive
            /\ attributes[k + i].ListPosition = i - 1
            /\ attributes[k + i].Value = a.Value.elems[i]
            /\ Names[k + i] = Names[k] \o InBrackets(i - 1)
       /\ k + n < Len(attributes) => ~attributes[k + n + 1].isPrimitive

\* C1: a field holding a list of N primitives is emitted as the list attribute
\* followed at once by exactly N element attributes, in index order, whose
\* FullName() is <list full name>[0] .. <list full name>[N-1]; for N = 0 only
\* the list attribute is emitted.
ElementsNamedAfterList ==
    Done => \A k \in 1..Len(attributes) :
                IsPrimitiveList(attributes[k]) => ElementsFollow(k)

External(a) == GetJSONTagValue(a.Field)

\* the name the rule gives attributes[k]: the external name without ancestors,
\* else the immediate parent's FullName, the index in brackets when it is
\* not negative, and a dot and the external name unless the attribute is the
\* element of a list of primitives
NameRule(k) ==
    LET a == attributes[k]
    IN IF a.Parents.len = 0 THEN External(a)
       ELSE LET ps == ParentsOf(a)
            IN FullName(ps[Len(ps)], heap)
               \o (IF a.ListPosition >= 0 THEN InBrackets(a.ListPosition) ELSE <<>>)
               \o (IF a.isPrimitive THEN <<>> ELSE <<".">> \o External(a))

\* C2: FullName of an attribute without ancestors is its external name; with
\* ancestors it is the immediate parent's FullName, then [i] when the list
\* index i is >= 0, then '.' and the external name unless the attribute is a
\* synthetic primitive element.  Hence for a record handed to GetAttributes
\* the names are K[i].L[j].f for the fields inside the lists of a top-level
\* list K, and R.g for a field g of a record field R.
FullNameRule ==
    Done =>
        /\ \A k \in 1..Len(attributes) : Names[k] = NameRule(k)
        /\ (entity \in Records /\ Unfiltered) => Names = Paths(RecordFields)

\* C2 happens: the walk of a page names the author of its second article
\* articles[1].authors[0].id
FullNameRuleSeen ==
    /\ Done
    /\ entity \in Pages
    /\ \E k \in 1..Len(attributes) :
         /\ Depth(k) = 2
         /\ Names[k] = <<"a", "r", "t", "i", "c", "l", "e", "s", "[", "1", "]", ".",
                         "a", "u", "t", "h", "o", "r", "s", "[", "0", "]", ".", "i", "d">>

RECURSIVE Inlined(_)
RECURSIVE InlinedFields(_, _)

\* the fields of the record v from position p on, the fields of an embedded
\* record standing where the embedded field stood
InlinedFields(v, p) ==
    IF p > Len(v.fields) THEN <<>>
    ELSE LET f == v.fields[p]
         IN (IF f.sf.Anonymous
             THEN (IF Deref(f.v).kind = "struct" THEN Inlined(Deref(f.v)).fields ELSE <<>>)
             ELSE <<FieldOf(f.sf, Inlined(f.v))>>)
            \o InlinedFields(v, p + 1)

\* the value v with the fields of every embedded record declared directly on
\* the record that embeds it
Inlined(v) ==
    CASE v.kind = "ptr" /\ Len(v.elems) > 0 -> Ptr(Inlined(v.elems[1]))
      [] IsList(v) -> [v EXCEPT !.elems = [l \in 1..Len(v.elems) |-> Inlined(v.elems[l])]]
      [] v.kind = "struct" -> [v EXCEPT !.fields = InlinedFields(v, 1)]
      [] OTHER -> v

\* the dot-separated segments of a path name, each without its list indices
Segments(name) ==
    LET parts == Split(name, ".")
        Cut(seg) == IF IndexByte(seg, "[") = 0 THEN seg
                    ELSE SubSeq(seg, 1, IndexByte(seg, "[") - 1)
    IN {Cut(parts[i]) : i \in 1..Len(parts)}

\* field, number of ancestors, list index and full name of each attribute of a walk
Traces(attrs, h) ==
    [k \in 1..Len(attrs) |->
        [field |-> attrs[k].Field, depth |-> attrs[k].Parents.len,
         index |-> attrs[k].ListPosition, prim |-> attrs[k].isPrimitive,
         name |-> FullName(attrs[k], h)]]

\* C3: an anonymous (embedded) record field is never itself emitted: only its
\* inner fields are, in place, with the ancestor chain and list index they
\* would have were they declared directly on the embedding record; no
\* FullName has the embedded field's own name as a path segment.
EmbeddedIsInlined ==
    Done =>
        /\ \A k \in 1..Len(attributes) : ~attributes[k].Field.Anonymous
        /\ Inlined(entity) # entity =>
              LET direct == getAttributes(Inlined(entity), Slice(0, 0), filterTags,
                                          ignoredFields, 0, <<>>)
              IN Traces(attributes, heap) = Traces(direct.attributes, direct.heap)
        /\ \A k \in 1..Len(attributes) : \A sf \in RecordFields :
              sf.Anonymous => /\ sf.Name \notin Segments(Names[k])
                              /\ GetJSONTagValue(sf) \notin Segments(Names[k])

\* C3 happens: a page inside a record is walked, and the id of the embedded
\* Identifiable comes out as inner.id, one ancestor above it
EmbeddedIsInlinedSeen ==
    /\ Done
    /\ Inlined(entity) # entity
    /\ \E k \in 1..Len(attributes) :
         /\ attributes[k].Field = Identifiable_UUID
         /\ Depth(k) = 1
         /\ Names[k] = <<"i", "n", "n", "e", "r", ".", "i", "d">>

\* the record has primitives only: no embedded field, no record, no list
IsFlat(v) ==
    /\ v.kind = "struct"
    /\ \A p \in 1..Len(v.fields) :
         /\ ~v.fields[p].sf.Anonymous
         /\ Deref(v.fields[p].v).kind \notin {"struct", "slice", "array"}

\* the fields of the record v whose native name is not in ignoredFields
NotIgnored(v) ==
    LET Kept(f) == \A i \in 1..Len(ignoredFields) : ignoredFields[i] # f.sf.Name
    IN SelectSeq(v.fields, Kept)

\* C4: for a record of primitives only and empty filterTags, GetAttributes
\* returns exactly one attribute per field whose native name is not in
\* ignoredFields, in declaration order, and nothing else.
FlatRecordWalk ==
    Done /\ filterTags = <<>> /\ IsFlat(Deref(entity)) =>
        LET fields == NotIgnored(Deref(entity))
        IN /\ Len(attributes) = Len(fields)
           /\ \A k \in 1..Len(fields) :
                /\ attributes[k].Field = fields[k].sf
                /\ attributes[k].Value = Deref(fields[k].v)
                /\ attributes[k].Parents.len = 0
                /\ ~attributes[k].isPrimitive

\* C4 happens: a record of seven primitive fields is walked with one of
\* them ignored, and six attributes come back
FlatRecordWalkSeen ==
    /\ Done
    /\ filterTags = <<>>
    /\ IsFlat(Deref(entity))
    /\ Len(Deref(entity).fields) = 7
    /\ Len(attributes) = 6
    /\ \E i \in 1..Len(ignoredFields) : ignoredFields[i] = <<"F">>

\* C5: read after the walk, the Parents of every returned attribute are the
\* Parents of the container attribute it was emitted under followed by that
\* container attribute, at every nesting depth.
ParentsAreContainerChain ==
    Done => \A k \in 1..Len(attributes) :
                Depth(k) > 0 =>
                    LET c  == ContainerOf(k)
                        ps == ParentsOf(attributes[k])
                    IN /\ c # 0
                       /\ SubSeq(ps, 1, Len(ps) - 1) = ParentsOf(attributes[c])
                       /\ SameAttribute(ps[Len(ps)], attributes[c])

\* C6: within one result no two distinct attributes have the same FullName()
\* (the external names of the fields of each record type here are distinct).
FullNamesDistinct ==
    Done => \A i, j \in 1..Len(attributes) : i # j => Names[i] # Names[j]

\* C7: the returned sequence is a depth-first pre-order enumeration: each
\* container attribute is followed at once by the block of what was emitted
\* beneath it, sibling fields in declaration order, list elements in
\* ascending index order.
PreOrder == Done => Shapes = Plan(Emitted)

\* C7 happens: a list of two records was walked, so that a container, what is
\* beneath it, and its next sibling follow one another
PreOrderSeen ==
    /\ Done
    /\ \E i, j, k \in 1..Len(attributes) :
         /\ i < j /\ j < k
         /\ Depth(i) = Depth(k) /\ Depth(j) > Depth(i)
         /\ attributes[j].ListPosition = 1
         /\ IsRecordList(attributes[i].Value)

\* the struct fields that carry at least one of the tag keys of filterTags
CarryingAnyTag ==
    {sf \in RecordFields :
        filterTags = <<>> \/ \E i \in 1..Len(filterTags) : Lookup(sf.Tag, filterTags[i]).ok}

\* C8: with non-empty filterTags a non-anonymous field is emitted if and only
\* if its tag carries at least one of the listed keys, whatever the position
\* of the key in the list; an excluded field is not descended into; with
\* empty filterTags every field is included.
IncludedIfAnyTag ==
    Done /\ ignoredFields = <<>> => Shapes = Plan(CarryingAnyTag)

\* the struct fields whose native name is no entry of ignoredFields
NotIgnoredFields ==
    {sf \in RecordFields : \A i \in 1..Len(ignoredFields) : ignoredFields[i] # sf.Name}

\* every entry of ignoredFields is the external name of a field and the
\* native name of none
ExternalNamesOnly ==
    /\ ignoredFields # <<>>
    /\ \A i \in 1..Len(ignoredFields) :
         /\ \E sf \in RecordFields : GetJSONTagValue(sf) = ignoredFields[i]
         /\ \A sf \in RecordFields : sf.Name # ignoredFields[i]

\* C9: a non-anonymous field is left out, with everything beneath it, if and
\* only if its native name is an entry of ignoredFields; an external name in
\* ignoredFields leaves nothing out; this holds at every nesting depth.
IgnoredByNativeName ==
    Done /\ filterTags = <<>> =>
        /\ Shapes = Plan(NotIgnoredFields)
        /\ ExternalNamesOnly => Shapes = Plan(RecordFields)

\* C9 happens: a record field two levels down is ignored by its native name
\* and is gone with all that is beneath it, the rest of the walk being there
IgnoredByNativeNameSeen ==
    /\ Done
    /\ filterTags = <<>>
    /\ ignoredFields = <<S_Owner>>
    /\ \E k \in 1..Len(Plan(RecordFields)) :
         /\ Plan(RecordFields)[k].name = S_Owner
         /\ Plan(RecordFields)[k].depth >= 1
    /\ Len(attributes) + 2 < Len(Plan(RecordFields))
    /\ Len(attributes) > 1

RECURSIVE CountNilOrEmpty(_)
\* the number of non-embedded fields, anywhere in the record rv, whose
\* pointer is unset or whose list is empty
CountNilOrEmpty(rv) ==
    LET v == Deref(rv)
        RECURSIVE InFields(_)
        RECURSIVE InElements(_, _)
        InElements(list, l) ==
            IF l > Len(list.elems) THEN 0
            ELSE CountNilOrEmpty(list.elems[l]) + InElements(list, l + 1)
        InFields(p) ==
            IF p > Len(v.fields) THEN 0
            ELSE LET f     == v.fields[p]
                     value == Deref(f.v)
                 IN (IF f.sf.Anonymous THEN CountNilOrEmpty(f.v)
                     ELSE IF NilOrEmpty(value) THEN 1
                     ELSE IF value.kind = "struct" THEN CountNilOrEmpty(value)
                     ELSE IF IsRecordList(value) THEN InElements(value, 1)
                     ELSE 0) + InFields(p + 1)
    IN IF v.kind # "struct" THEN 0 ELSE InFields(1)

\* the returned attributes of the fields whose pointer is unset or whose list is empty
Bare ==
    {k \in 1..Len(attributes) :
        ~attributes[k].isPrimitive /\ NilOrEmpty(attributes[k].Value)}

\* C10: a field whose pointer is unset and a field holding an empty list
\* (directly or behind a pointer) each yield exactly one attribute and no
\* element or descendant attributes; the walk ends all the same.
UnsetAndEmptyYieldOne ==
    Done =>
        /\ \A k \in Bare :
              k < Len(attributes) => Depth(k + 1) <= Depth(k)
        /\ Unfiltered => Cardinality(Bare) = CountNilOrEmpty(entity)

\* C10 happens: the walk of a record with an unset pointer, an empty list and
\* a pointer to an empty list has ended, with an attribute for each of them
UnsetAndEmptyYieldOneSeen ==
    /\ Done
    /\ Unfiltered
    /\ \E k \in Bare : attributes[k].Value.kind = "ptr"
    /\ \E k \in Bare : attributes[k].Value.kind = "slice" /\ attributes[k].Field = Person_Emails
    /\ \E k \in Bare : attributes[k].Value.kind = "slice" /\ attributes[k].Field = File_Paths
    /\ Len(attributes) > Cardinality(Bare)

\* ------------------------------------------------------------------------
\* Claims about Validate (SpecValidate) and about ValidateAttribute, IsIn and
\* IsValidLength (SpecRules).

\* Validate has returned
Returned == pc = "returned"

\* the options of the call of Validate
OptionsOfCall == ValidationOptions(ignoredFields, skipRules)

\* attributes[k] is a list whose own rules give at least one error, reported
\* under its name
FailedList(k) ==
    /\ attributes[k].Value.kind \in {"slice", "array"}
    /\ ValidateAttribute(attributes[k], OptionsOfCall) # <<>>
    /\ Names[k] \in DOMAIN returned

\* key names something under the list named list: an element list[i] or
\* what an element holds
Under(key, list) == HasPrefix(key, list \o <<"[">>)

\* C11: in Validate, whenever a list attribute yields at least one error, no
\* attribute that is a descendant of that list (its primitive elements, for
\* any number N >= 1 of them, or the fields of its element records) is a key
\* of the returned mapping.
NoKeyUnderFailedList ==
    Returned => \A k \in 1..Len(attributes) :
                    FailedList(k) => \A key \in DOMAIN returned : ~Under(key, Names[k])

\* the struct fields of the records Validate is run on
ValidatedFields ==
    {VIdentifiable_UUID, Contact_IsActive, Contact_Emails, Contact_PhoneNumbers,
     VPerson_Identifiable, VPerson_Name, VPerson_Contact, Part_Code,
     Bundle_Label, Bundle_Note, Kit_Parts, Kit_Label, Box_Inner,
     S2_C, S2_F, S2_G, S2_H, S2_K, S2_L, S2_M}
        \cup {Bundle_Codes(rules) : rules \in {S_uuid_max_3, S_uuid_max_none, S_uuid_min_x}}

\* the path names of the attributes of the model, in the order of the walk
ValidatedPaths ==
    LET o == Outline(entity, 0, -1, <<>>, ValidatedFields)
    IN [k \in 1..Len(o) |-> o[k].path]

\* the rules of the validate tag of an attribute
RulesOf(a) == GetTagValues(a.Field, VALIDATION_TAG_KEYWORD)

\* the text violates the format rule
Malformed(rule, text) ==
    CASE rule = EMAIL -> ~IsAddress(text)
      [] rule = UUID -> ~IsUUID(text)
      [] rule = DATETIME -> ~IsRFC3339(text)
      [] rule = CURRENCY -> ~IsCurrency(text)
      [] OTHER -> FALSE

\* the size rules (min, max, eq with a whole number) of the list attribute a
\* are met by the number of its elements
SizeRulesMet(a) ==
    \A i \in 1..Len(RulesOf(a)) :
        LET t == SplitN2(RulesOf(a)[i], "=")
            n == Len(a.Value.elems)
        IN t[1] \in {MIN, MAX, EQUAL} =>
              /\ Len(t) = 2 /\ IsDigits(t[2])
              /\ t[1] = MIN => n >= Atoi(t[2])
              /\ t[1] = MAX => n <= Atoi(t[2])
              /\ t[1] = EQUAL => n = Atoi(t[2])

\* attributes[k] is a list of texts whose tag holds the format rule and
\* whose size rules are met
ListWithFormatRule(k, rule) ==
    /\ IsPrimitiveList(attributes[k])
    /\ Len(attributes[k].Value.elems) > 0
    /\ Contains(RulesOf(attributes[k]), rule)
    /\ SizeRulesMet(attributes[k])

\* the keys the elements of the list at k are to have: the paths list[i] of
\* the elements that violate the rule
KeysOfElements(k, rule) ==
    {ValidatedPaths[k] \o InBrackets(l - 1) :
        l \in {j \in 1..Len(attributes[k].Value.elems) :
                  Malformed(rule, attributes[k].Value.elems[j].val)}}

\* C12: a format or membership rule on a list attribute gives no error for
\* the list attribute itself; each primitive element inherits the rule, and
\* an error appears only under the element's own path list[i], when that
\* element violates the rule.
ElementErrorsUnderOwnPath ==
    (Returned /\ skipRules = <<>> /\ ignoredFields = <<>>) =>
        \A k \in 1..Len(attributes) : \A rule \in {EMAIL, UUID} :
            ListWithFormatRule(k, rule) =>
                /\ ValidatedPaths[k] \notin DOMAIN returned
                /\ \A l \in 1..Len(attributes[k].Value.elems) :
                       Contains(RulesOf(attributes[k + l]), rule)
                /\ \A key \in KeysOfElements(k, rule) :
                       key \in DOMAIN returned /\ returned[key] = FORMAT_ERROR
                /\ \A key \in DOMAIN returned :
                       Under(key, ValidatedPaths[k]) => key \in KeysOfElements(k, rule)

\* the positions of the min and max entries among the rules of the field's
\* validate tag
SizeEntries(field) ==
    LET rules == GetTagValues(field, VALIDATION_TAG_KEYWORD)
    IN {i \in 1..Len(rules) : SplitN2(rules[i], "=")[1] \in {S_min, S_max}}

\* the declared fields whose validate tag holds a min or a max entry
DeclaredWithSize(declared) == {f \in declared : SizeEntries(f) # {}}

\* attributes[k] is a list of primitives, of a field declared with a min or
\* max entry: it still has the declared tag, and each of its elements is an
\* element attribute whose validate tag has neither entry
SizeStaysOnList(k, declared) ==
    (/\ IsPrimitiveList(attributes[k])
     /\ \E f \in DeclaredWithSize(declared) : f.Name = attributes[k].Field.Name) =>
        /\ attributes[k].Field \in DeclaredWithSize(declared)
        /\ \A l \in 1..Len(attributes[k].Value.elems) :
              /\ k + l <= Len(attributes)
              /\ attributes[k + l].isPrimitive
              /\ SizeEntries(attributes[k + l].Field) = {}

\* C13: for a list-of-primitives field whose validate tag holds min and/or
\* max entries, the validate tag of every element attribute holds no min and
\* no max entry, while the list attribute's own tag still holds them.
SizeRulesNotInherited ==
    Done => \A k \in 1..Len(attributes) : SizeStaysOnList(k, RecordFields)

\* a walk that returned a list declared with min=1,max=3 and two elements of it
SizeRulesNotInheritedSeen ==
    /\ Done
    /\ \E k \in 1..Len(attributes) :
          /\ IsPrimitiveList(attributes[k])
          /\ attributes[k].Field = Person_Emails
          /\ Cardinality(SizeEntries(attributes[k].Field)) = 2
          /\ Len(attributes[k].Value.elems) = 2
          /\ attributes[k + 2].isPrimitive

\* a call of the named function has returned
Called(op) == pc = "returned" /\ call.op = op

\* the candidate equals the value: the same text for a string, the same
\* number, once parsed, for an integer or a float
EqualsCandidate(value, candidate) ==
    CASE value.kind = "string" -> candidate = value.val
      [] value.kind \in IntKinds ->
             ParseInt(candidate).ok /\ ParseInt(candidate).n = ParseInt(value.val).n
      [] value.kind \in FloatKinds ->
             ParseFloat(candidate).ok /\ FloatEq(ParseFloat(candidate).f, ParseFloat(value.val).f)
      [] OTHER -> FALSE

\* C14: IsIn(value, accepted) is true if and only if at least one accepted
\* candidate equals the value (strings by their text, integers and floats by
\* their parsed number), whatever the order of the candidates and whatever
\* the other candidates are; a value of any other kind gives false.
MemberIffSomeCandidateEqual ==
    Called("IsIn") =>
        (returned <=> \E i \in 1..Len(call.acceptedValues) :
                          EqualsCandidate(call.value, call.acceptedValues[i]))

\* the kinds that have a length
SizedKinds == {"string", "slice", "array", "map"}

\* what a min, max or eq rule measures: the length of a string, list or map,
\* the number an integer (signed or unsigned) or a float holds
Measure(v) ==
    IF v.kind \in SizedKinds THEN Float(ValueLen(v), 1) ELSE ParseFloat(v.val).f

\* the measure meets the rule with the given threshold
Meets(measure, rule, threshold) ==
    CASE rule = MIN -> FloatGeq(measure, threshold)
      [] rule = MAX -> FloatLeq(measure, threshold)
      [] rule = EQUAL -> FloatEq(measure, threshold)

\* C15: a rule min=N passes iff the value's measure is >= N, max=N iff it is
\* <= N, and eq=N iff it equals N, the measure being the length for strings,
\* lists and maps and the field's own number for every integer kind (signed
\* or unsigned) and every floating-point kind.
RulePassesIffMeasureMeets ==
    (/\ Called("IsValidLength")
     /\ call.v.kind \in SizedKinds \cup IntKinds \cup UintKinds \cup FloatKinds) =>
        (returned <=> Meets(Measure(call.v), call.rule, call.length))

\* the rule's kind and threshold:  <<"min", "5">>  for  min=5
RuleParts(rule) == SplitN2(rule, "=")

\* the first rule of the tag of the call that is not in SkipRules, <<>> when
\* every rule is skipped
FirstRule ==
    LET rules == RulesOf(call.attribute)
        live  == {i \in 1..Len(rules) :
                     ~Contains(call.options.SkipRules, RuleParts(rules[i])[1])}
    IN IF live = {} THEN <<>> ELSE rules[CHOOSE i \in live : \A j \in live : i <= j]

\* the value of the call, behind its pointers
Present == ~PointerElement(call.attribute.Value).err

ValueOfCall == Deref(call.attribute.Value)

\* the first rule is a min, max or eq rule with a number for its threshold,
\* and the value of the call does not meet it
SizeRuleFails ==
    /\ FirstRule # <<>>
    /\ RuleParts(FirstRule)[1] \in {MIN, MAX, EQUAL}
    /\ Len(RuleParts(FirstRule)) = 2
    /\ ParseFloat(RuleParts(FirstRule)[2]).ok
    /\ Present
    /\ ValueOfCall.kind \in SizedKinds \cup IntKinds \cup UintKinds \cup FloatKinds
    /\ ~Meets(Measure(ValueOfCall), RuleParts(FirstRule)[1],
              ParseFloat(RuleParts(FirstRule)[2]).f)

\* C16: when a min, max or eq rule fails, ValidateAttribute reports
\* INVALID_VALUE if the value is a numeric scalar and INVALID_LENGTH if it is
\* a string or a sized collection, and no other code.
SizeFailureCode ==
    (Called("ValidateAttribute") /\ SizeRuleFails) =>
        returned = IF ValueOfCall.kind \in SizedKinds
                   THEN <<"INVALID_LENGTH">> ELSE <<"INVALID_VALUE">>

\* the text violates the rule, for each of the format rules: an address, a
\* URL (nothing without a colon after a scheme is one), a uuid, an RFC 3339
\* time, a currency code, a pattern
ViolatesFormat(rule, text) ==
    CASE RuleParts(rule)[1] \in {EMAIL, UUID, DATETIME, CURRENCY} ->
             Malformed(RuleParts(rule)[1], text)
      [] RuleParts(rule)[1] = URL -> IndexByte(text, ":") = 0
      [] RuleParts(rule)[1] = REGEX ->
             Len(RuleParts(rule)) = 2 /\ ~PassesRegex(RuleParts(rule)[2], text)
      [] OTHER -> FALSE

\* C17: for a present string value that violates a format rule (email, url,
\* uuid, datetime, currency or regex), ValidateAttribute returns
\* INVALID_FORMAT for that attribute.
FormatFailureCode ==
    (/\ Called("ValidateAttribute")
     /\ FirstRule # <<>>
     /\ Present
     /\ ValueOfCall.kind = "string"
     /\ ViolatesFormat(FirstRule, ValueOfCall.val)) =>
        returned = <<"INVALID_FORMAT">>

\* the first rule of the tag that is not skipped is a format rule and the
\* value is present and neither a string nor a list
FormatRuleOnOtherKind ==
    /\ FirstRule # <<>>
    /\ RuleParts(FirstRule)[1] \in {CURRENCY, DATETIME, EMAIL, UUID}
    /\ Present
    /\ ValueOfCall.kind \notin {"string", "slice", "array"}

\* C18: when a format rule (currency, datetime, email, uuid) is applied to a
\* present value that is neither a string nor a list, ValidateAttribute
\* returns exactly [INVALID_TYPE], never a format or value code, and the rules
\* later in the tag are not evaluated.
TypeErrorAlone ==
    (Called("ValidateAttribute") /\ FormatRuleOnOtherKind) =>
        returned = <<"INVALID_TYPE">>

\* a call with an integer under a format rule that is followed by a rule the
\* integer fails
TypeErrorAloneSeen ==
    /\ Called("ValidateAttribute")
    /\ FormatRuleOnOtherKind
    /\ ValueOfCall = IntOf(<<"4", "2">>)
    /\ RulesOf(call.attribute) = <<UUID, S_max_1>>
    /\ call.options.SkipRules = <<>>
    /\ returned = <<"INVALID_TYPE">>

\* the tag of the attribute holds a min, max or eq rule whose threshold is
\* missing or is no number
MalformedThreshold(a) ==
    \E i \in 1..Len(RulesOf(a)) :
        LET t == RuleParts(RulesOf(a)[i])
        IN /\ t[1] \in {MIN, MAX, EQUAL}
           /\ Len(t) = 1 \/ ~ParseFloat(t[2]).ok

\* attributes[j] is no descendant of attributes[k] and its own rules give an
\* error
FailsOutside(j, k) ==
    /\ ~Under(ValidatedPaths[j], ValidatedPaths[k])
    /\ ValidateAttribute(attributes[j], OptionsOfCall) # <<>>

\* C19: a min, max or eq rule whose threshold is missing or does not parse
\* as a number yields INVALID_VALUE for that attribute, and Validate still
\* evaluates every remaining attribute of the sequence.
MalformedThresholdIsValueError ==
    (Returned /\ skipRules = <<>> /\ ignoredFields = <<>>) =>
        \A k \in 1..Len(attributes) :
            MalformedThreshold(attributes[k]) =>
                /\ ValidatedPaths[k] \in DOMAIN returned
                /\ returned[ValidatedPaths[k]] = VALUE_ERROR
                /\ \A j \in (k + 1)..Len(attributes) :
                       FailsOutside(j, k) => ValidatedPaths[j] \in DOMAIN returned

\* the code the rule gives a field whose pointer is unset
CodeOfUnset(rule) ==
    CASE RuleParts(rule)[1] \in {EMAIL, UUID, DATETIME} -> <<"INVALID_FORMAT">>
      [] RuleParts(rule)[1] \in {CURRENCY, IN_RULE, MIN, MAX, EQUAL} -> <<"INVALID_VALUE">>
      [] OTHER -> <<>>

\* the value of the call is a pointer that is unset
UnsetPointer ==
    call.attribute.Value.kind = "ptr" /\ call.attribute.Value.elems = <<>>

\* the rules of the call's tag are all among email, uuid, datetime, currency,
\* in, min, max and eq
KnownRulesOnly ==
    \A i \in 1..Len(RulesOf(call.attribute)) :
        CodeOfUnset(RulesOf(call.attribute)[i]) # <<>>

\* C20: for a field whose pointer is unset, every rule that is not in
\* SkipRules yields an error code: email, uuid and datetime give
\* INVALID_FORMAT; currency, in, min, max and eq give INVALID_VALUE; a rule
\* named in SkipRules gives nothing.
UnsetPointerCodes ==
    (Called("ValidateAttribute") /\ UnsetPointer /\ KnownRulesOnly) =>
        returned = IF FirstRule = <<>> THEN <<>> ELSE CodeOfUnset(FirstRule)

\* calls on an unset pointer: one whose first rule is skipped and whose second
\* gives its code, or one whose only rule is skipped
UnsetPointerCodesSeen ==
    /\ Called("ValidateAttribute")
    /\ UnsetPointer
    /\ \/ /\ RulesOf(call.attribute) = <<UUID, S_in_1357>>
          /\ call.options.SkipRules = <<UUID>>
          /\ returned = <<"INVALID_VALUE">>
       \/ /\ RulesOf(call.attribute) = <<EMAIL>>
          /\ call.options.SkipRules = <<MIN, EMAIL>>
          /\ returned = <<>>

\* --------------------------------------------------------------- C21..C30

\* ValidatePayload has returned
Finished == pc = "finished"

\* the payload of the call is not a JSON document
Unparseable == call.data.verr

\* the map with the one key "_" and the one code INVALID_PAYLOAD
OnlyInvalidPayload == [k \in {S_underscore} |-> <<"INVALID_PAYLOAD">>]

\* C21: when the payload cannot be parsed, ValidatePayload returns exactly the
\* map {"_": [INVALID_PAYLOAD]}: no validation rule was evaluated and no other
\* key is present
UnparseableGivesOnlyInvalidPayload ==
    (Finished /\ Unparseable) =>
        /\ returned = OnlyInvalidPayload
        /\ attributes = <<>>
        /\ validations = <<>>

\* the step in which ValidatePayload merges and returns, for a payload that parsed
MergesParsed == pc = "returned" /\ pc' = "finished" /\ ~Unparseable

\* C22: when the payload parses, the keys of the returned map are the keys of
\* the decoder's map together with the keys of the validator's map; a key only
\* the validator has keeps the validator's codes, and a key both have holds the
\* decoder's codes only
ReturnedIsUnionDecoderFirst ==
    [][MergesParsed =>
          /\ DOMAIN returned' = DOMAIN decoderErrors \cup DOMAIN validations
          /\ \A k \in DOMAIN validations \ DOMAIN decoderErrors :
                returned'[k] = validations[k]
          /\ \A k \in DOMAIN decoderErrors : returned'[k] = decoderErrors[k]]_vars

\* a returned map in which "name" was reported by both and holds the decoder's
\* code, "id" only by the validator, and "extra" only by the decoder
ReturnedIsUnionDecoderFirstSeen ==
    /\ Finished
    /\ ~Unparseable
    /\ entity = VPerson(<<>>, <<>>, Contact(FALSE, <<StringOf(GoodEmail)>>, <<>>))
    /\ skipRules = <<>>
    /\ DOMAIN decoderErrors = {S_name, <<"e", "x", "t", "r", "a">>}
    /\ returned = [k \in {<<"i", "d">>, S_name, <<"e", "x", "t", "r", "a">>} |->
                      IF k = <<"i", "d">> THEN <<"INVALID_FORMAT">>
                      ELSE IF k = S_name THEN <<"INVALID_TYPE">>
                      ELSE <<"ADDITIONAL_PROPERTY">>]

\* the positions of the attributes emitted directly under attributes[k], in order
DirectlyUnder(k) ==
    LET RECURSIVE From(_)
        From(j) ==
            IF j > Len(attributes) THEN <<>>
            ELSE (IF ContainerOf(j) = k THEN <<j>> ELSE <<>>) \o From(j + 1)
    IN From(k + 1)

\* the Children of attributes[k] are the attributes directly under it
HoldsItsChildren(k) ==
    LET under == DirectlyUnder(k)
        children == attributes[k].Children
    IN /\ Len(children) = Len(under)
       /\ \A i \in 1..Len(under) : SameAttribute(children[i], attributes[under[i]])

\* C23: after a walk the Children of each container are exactly the
\* attributes nested directly under it (all N elements of a list of N, the
\* fields of a record-valued field), and an attribute that is not a container,
\* an element attribute in particular, has no Children
ChildrenAreDirectlyNested ==
    Done => \A k \in 1..Len(attributes) : HoldsItsChildren(k)

\* attributes[j] was emitted under attributes[k]: an element of it, or a
\* field of one of its element records
Descendant(j, k) == j > k /\ \A i \in (k + 1)..j : Depth(i) > Depth(k)

\* the own rules of attributes[k] give at least one error
OwnErrors(k) == ValidateAttribute(attributes[k], OptionsOfCall) # <<>>

\* attributes[j] is no descendant of any list whose own rules give an error
OutsideEveryFailingList(j) ==
    \A m \in 1..(j - 1) :
        (attributes[m].Value.kind \in {"slice", "array"} /\ OwnErrors(m)) => ~Descendant(j, m)

\* C24: in Validate an error on a list suppresses only the descendants of
\* that list: every attribute that follows the list and is no descendant of a
\* failing list is still evaluated, and its errors are in the returned map
FailedListSuppressesOnlyDescendants ==
    Returned =>
        \A k \in 1..Len(attributes) :
            FailedList(k) =>
                \A j \in (k + 1)..Len(attributes) :
                    (OutsideEveryFailingList(j) /\ OwnErrors(j)) =>
                        Names[j] \in DOMAIN returned

\* rule k of the tag, evaluated after collected, fails as a length rule: the
\* code INVALID_LENGTH is appended to what was collected
LengthFailure(attribute, options, rules, k, collected) ==
    LET r == ValidateRule(attribute, options, rules[k], collected)
    IN /\ RuleParts(rules[k])[1] \in {MIN, MAX, EQUAL}
       /\ r.returns
       /\ r.validations = Append(collected, Errors.length)

RECURSIVE Accumulated(_, _, _, _, _)
\* the codes of the rules from rule k on when a length failure appends its
\* code and the evaluation goes on, and every other failure returns its code
Accumulated(attribute, options, rules, k, collected) ==
    IF k > Len(rules) THEN collected
    ELSE LET r == ValidateRule(attribute, options, rules[k], collected)
         IN IF LengthFailure(attribute, options, rules, k, collected)
            THEN Accumulated(attribute, options, rules, k + 1, r.validations)
            ELSE IF r.returns THEN r.validations
            ELSE Accumulated(attribute, options, rules, k + 1, r.validations)

\* C25: in ValidateAttribute a failing length rule (min, max or eq on a
\* string or a sized collection) appends its code and the evaluation goes on
\* with the remaining rules, so that more than one code can accumulate, while
\* a format, type or value failure returns at once with its single code
LengthFailuresAccumulate ==
    Called("ValidateAttribute") =>
        returned = Accumulated(call.attribute, call.options, RulesOf(call.attribute), 1, <<>>)

\* C26: when the value of a field is an unset (nil) pointer the walker skips
\* the field entirely: no attribute is emitted for it and nothing is recursed
\* into. (The Value of an attribute is a pointer only when the pointer is
\* unset: PointerElement unwraps every other pointer.)
UnsetPointerEmitsNothing ==
    Done => \A k \in 1..Len(attributes) : attributes[k].Value.kind # "ptr"

\* the entries of the named tag of the field of the call, in order
EntriesOfCall == GetTagValues(call.field, call.tag)

\* the entries whose key is not in the removeList of the call
KeptEntries ==
    LET Kept(entry) == ~Contains(call.removeList, RuleParts(entry)[1])
    IN SelectSeq(EntriesOfCall, Kept)

\* C27: RemoveValuesFromTag(tag, keys, field) returns the tag string of the
\* field with exactly the entries of the named tag whose key is in keys
\* removed: the other entries keep their text and stay separated by commas
\* wherever the removed entry stood, and the values of the other tag keys are
\* unchanged
RemovesExactlyTheNamedEntries ==
    Called("RemoveValuesFromTag") =>
        returned = TagField(GetJSONTagValue(call.field), KeptEntries).Tag

\* the attribute is a list of at least one element whose elements all are
\* pointers to records
IsPointerRecordList(a) ==
    /\ IsList(a.Value)
    /\ Len(a.Value.elems) > 0
    /\ \A l \in 1..Len(a.Value.elems) :
          a.Value.elems[l].kind = "ptr" /\ Deref(a.Value.elems[l]).kind = "struct"

\* C28: for a list whose elements are pointers to records the walker unwraps
\* the element pointers before it classifies the list, takes it for a list of
\* records and emits the fields of each element record, under the list, as
\* for a list of record values. (An Author has the one field Id, so the field
\* of element l is the l-th attribute after the list.)
PointerElementsWalkedAsRecords ==
    Done =>
        \A k \in 1..Len(attributes) :
            IsPointerRecordList(attributes[k]) =>
                \A l \in 1..Len(attributes[k].Value.elems) :
                    /\ k + l <= Len(attributes)
                    /\ ~attributes[k + l].isPrimitive
                    /\ attributes[k + l].Field = Author_Id
                    /\ attributes[k + l].ListPosition = l - 1
                    /\ Depth(k + l) = Depth(k) + 1

\* the positions of the attributes whose value has the type uuid.UUID
UUIDAttributes == {k \in 1..Len(attributes) : attributes[k].Value.typ = "uuid.UUID"}

\* the entity is a Tagged record, inside any number of records
HoldsTagged == \E t \in Taggeds, n \in 0..MaxNest : entity = Nest(t, n)

\* C29: a field of the type uuid.UUID (an array of 16 bytes) is walked as a
\* scalar: it yields exactly one attribute, no attribute for any of its
\* bytes, and its Children are empty
UUIDIsWalkedAsScalar ==
    (Done /\ HoldsTagged) =>
        /\ Cardinality(UUIDAttributes) = 1
        /\ \A k \in UUIDAttributes :
              /\ attributes[k].Children = <<>>
              /\ ~attributes[k].isPrimitive
              /\ k < Len(attributes) => Depth(k + 1) <= Depth(k)
        /\ \A j \in 1..Len(attributes) :
              attributes[j].Value.kind # "uint8" /\ ~attributes[j].isPrimitive

\* C29 happens: the walk of a Tagged record inside a record has ended with
\* the attributes inner, inner.id and inner.name
UUIDIsWalkedAsScalarSeen ==
    /\ Done
    /\ entity = Nest(Tagged(GoogleUUID(<<"7">>), <<"n">>), 1)
    /\ ignoredFields = <<>>
    /\ Len(attributes) = 3
    /\ attributes[2].Field = Tagged_Id
    /\ Len(attributes[2].Value.elems) = UUIDBytes
    /\ attributes[3].Field = Tagged_Name

RECURSIVE SumOver(_, _)
\* the sum over the children, from child k on, of 1 + what SkipsPastLastChild
\* gives the child
SumOver(children, k) ==
    IF k > Len(children) THEN 0
    ELSE 1 + SkipsPastLastChild(children[k]) + SumOver(children, k + 1)

\* C30: SkipsPastLastChild returns 0 for an attribute with no children, and
\* otherwise 1 + the number of children + the sum over the children of
\* (1 + the child's SkipsPastLastChild); for an attribute with a single
\* childless child it returns 3
SkipsCountsChildrenTwice ==
    Called("SkipsPastLastChild") =>
        LET children == call.sa.Children
        IN /\ Len(children) = 0 => returned = 0
           /\ Len(children) > 0 =>
                 returned = 1 + Len(children) + SumOver(children, 1)
           /\ (Len(children) = 1 /\ Len(children[1].Children) = 0) => returned = 3

\* C30 happens: the call on an attribute with a single childless child has
\* returned 3
SkipsCountsChildrenTwiceSeen ==
    /\ Called("SkipsPastLastChild")
    /\ call.sa = Parent(<<Parent(<<>>)>>)
    /\ returned = 3

=============================================================================
